---- MODULE Spec2Model ----
(***************************************************************************)
(* A model of the masquerade-sdk application service core                  *)
(* (crates/masquerade-sdk/src/appservice.rs and appservice/).              *)
(*                                                                         *)
(* Three subsystems are modelled, each with its own specification over the *)
(* shared state:                                                           *)
(*   SpecTxn   the HTTP surface, the authorization middleware, the         *)
(*             TransactionLog and handle_transaction;                      *)
(*   SpecDev   a Device: run, stop, the spawned sync loop and its queue;   *)
(*   SpecRoom  the RoomStore: the room map and the member sets.            *)
(* An await point of the source that touches shared state is a step of the *)
(* model; code between two such points is part of one step.                *)
(***************************************************************************)
EXTENDS Naturals, Integers, Sequences, FiniteSets, Bags, TLC

(***************************************************************************)
(* Bounds of the model                                                     *)
(***************************************************************************)
NumReqs == 2
NumTxns == 2
MaxOtk == 1
MaxEvents == 2
NumRunners == 2
MaxBatches == 2
NumTasks == 2
NumEnsures == 2
NumFetchers == 2
NumTrackers == 1
NumHandlers == 2
MaxOutgoing == 2
MaxToDevice == 2
MaxKeyRequests == 2
MaxSends == 51
NumCallers == 2

Reqs == 1..NumReqs
TxnIds == 1..NumTxns

VARIABLES
    transaction_log,  \* TransactionLog.inner: txn id -> its OnceCell (or no entry)
    cell_permit,      \* per OnceCell: the request holding its init permit, 0 if free
    req,              \* per HTTP request: its position, inputs and response
    closure_runs,     \* history: txn id -> how often the closure `op` was started
    dispatch_failed   \* history: txn ids whose closure saw handle_event fail

txnVars == <<transaction_log, cell_permit, req, closure_runs, dispatch_failed>>

VARIABLES
    token,            \* DeviceInner.token: 0 (None) or the run call whose token it holds
    cancelled,        \* the run calls whose CancellationToken is cancelled
    receiver,         \* DeviceInner.receiver: TRUE iff the slot holds the Receiver
    queue,            \* the mpsc channel: batches sent and not yet received
    sent,             \* history: number of batches send_sync_changes accepted
    synced,           \* history: the batches passed to Encryption::sync, in order
    due,              \* the intervals of the running loop whose tick is due
    run,              \* per run caller: its position and the result of its last call
    stop_pending,     \* history: stop() was called on an active loop that has not ended
    parked            \* history: the batches in the queue when the last loop ended

devVars == <<token, cancelled, receiver, queue, sent, synced, due, run, stop_pending,
             parked>>

VARIABLES
    rooms,            \* RoomStore.rooms: room id -> its entry (kind and joined members)
    calls,            \* the RoomStore calls in flight, each with its position and locals
    ev                \* history: what the last step of a RoomStore call did

roomVars == <<rooms, calls, ev>>

VARIABLES
    user_store,       \* UserStore.users: mxid -> the UserInner in the map (0: no entry)
    device,           \* UserInner.device of each UserInner: the DeviceInner in the slot (0: None)
    devices,          \* the DeviceInner objects created so far
    ensure,           \* per ensure_device call of extract_sync_tasks: position and locals
    crypto            \* per DeviceInner: the operations in progress on its OlmMachine

userVars == <<user_store, device, devices, ensure, crypto>>

VARIABLES
    rooms_lock,      \* RoomStore.rooms: 0, or the add_room_member call that holds rooms.write()
    fetch            \* per add_room_member call: position, locals and the homeserver's answers

fetchVars == <<rooms_lock, fetch>>

VARIABLES
    track            \* per RoomStore call with its recomputation: position, locals and update calls made

trackVars == <<track>>

VARIABLES
    event_handlers,  \* EventHandlerStore.event_handlers: event type -> the handlers pushed under it
    dispatch         \* the handle_event call: position, locals and the handlers invoked so far

dispatchVars == <<event_handlers, dispatch>>

VARIABLES
    last,            \* history: the last iteration of the loop, its branch and what its operation did
    erred            \* history: an iteration before the last one logged an error

pumpVars == <<last, erred>>

VARIABLES
    extract,         \* the extract_sync_tasks call: position, its transaction and the entries still to do
    pushed           \* history: the batches the call passed to send_sync_changes, in order

extractVars == <<extract, pushed>>

VARIABLES
    encrypt          \* the encrypt_event call: position, the room it found, the crypto and network calls made so far, the to-device requests left

encryptVars == <<encrypt>>

VARIABLES
    on_encrypted     \* the on_encrypted_message call: position, the room and users it found, the devices tried in order, the dispatches made

decryptVars == <<on_encrypted>>

VARIABLES
    root,            \* ApplicationService::run: its position and its result
    inner            \* ApplicationServiceInner::run before bot_device.run(): position, the calls made with their outcome, result

shutdownVars == <<root, inner>>

VARIABLES
    pumping          \* the send_outgoing_requests call: position, the list, the request in hand, the answers so far and the requests marked as sent

requestsVars == <<pumping>>

VARIABLES
    on_event         \* the built-in handler in hand: position, the event's type, membership change, room and state key, result

baseVars == <<on_event>>

VARIABLES
    guards,          \* per lock of the caches: the guards alive, each a caller and its mode
    waiters,         \* per lock: the callers waiting for it, in their order of arrival
    caller           \* per concurrent cache operation: the lock steps it makes and its position

locksVars == <<guards, waiters, caller>>

\* The variables of the other services, which the steps of add_room_member on the locked room map leave alone.
exceptFetch == <<trackVars, dispatchVars, pumpVars, extractVars, encryptVars, decryptVars, shutdownVars, requestsVars, baseVars, locksVars>>

\* The variables of the other services, which the steps of the tracked-user recomputation leave alone.
exceptTrack == <<fetchVars, dispatchVars, pumpVars, extractVars, encryptVars, decryptVars, shutdownVars, requestsVars, baseVars, locksVars>>

\* The variables of the other services, which the steps of the event dispatch leave alone.
exceptDispatch == <<fetchVars, trackVars, pumpVars, extractVars, encryptVars, decryptVars, shutdownVars, requestsVars, baseVars, locksVars>>

\* The variables of the other services, which the steps of the iterations of the sync loop leave alone.
exceptPump == <<fetchVars, trackVars, dispatchVars, extractVars, encryptVars, decryptVars, shutdownVars, requestsVars, baseVars, locksVars>>

\* The variables of the other services, which the steps of extract_sync_tasks leave alone.
exceptExtract == <<fetchVars, trackVars, dispatchVars, pumpVars, encryptVars, decryptVars, shutdownVars, requestsVars, baseVars, locksVars>>

\* The variables of the other services, which the steps of encrypt_event leave alone.
exceptEncrypt == <<fetchVars, trackVars, dispatchVars, pumpVars, extractVars, decryptVars, shutdownVars, requestsVars, baseVars, locksVars>>

\* The variables of the other services, which the steps of on_encrypted_message leave alone.
exceptDecrypt == <<fetchVars, trackVars, dispatchVars, pumpVars, extractVars, encryptVars, shutdownVars, requestsVars, baseVars, locksVars>>

\* The variables of the other services, which the steps of ApplicationService::run leave alone.
exceptShutdown == <<fetchVars, trackVars, dispatchVars, pumpVars, extractVars, encryptVars, decryptVars, requestsVars, baseVars, locksVars>>

\* The variables of the other services, which the steps of send_outgoing_requests leave alone.
exceptRequests == <<fetchVars, trackVars, dispatchVars, pumpVars, extractVars, encryptVars, decryptVars, shutdownVars, baseVars, locksVars>>

\* The variables of the other services, which the steps of the built-in handlers leave alone.
exceptBase == <<fetchVars, trackVars, dispatchVars, pumpVars, extractVars, encryptVars, decryptVars, shutdownVars, requestsVars, locksVars>>

\* The variables of the other services, which the steps of the cache operations on their locks leave alone.
exceptLocks == <<fetchVars, trackVars, dispatchVars, pumpVars, extractVars, encryptVars, decryptVars, shutdownVars, requestsVars, baseVars>>

svcVars == <<fetchVars, trackVars, dispatchVars, pumpVars, extractVars, encryptVars, decryptVars, shutdownVars, requestsVars, baseVars, locksVars>>

vars == <<txnVars, devVars, roomVars, userVars, svcVars>>

(***************************************************************************)
(* HTTP surface: requests, credentials, routes, responses                  *)
(***************************************************************************)

\* config.appservice.hs_token and the token a stranger sends.
hs_token == "hs_secret"
Tokens == {"hs_secret", "guess"}

\* The Authorization header of a request: absent, a non-Bearer scheme, or Bearer <token>.
Headers == {<<"none">>, <<"basic">>} \cup {<<"bearer", t>> : t \in Tokens}

\* The routes of ApplicationService::run, by handler; "other" is any unrouted path.
Routes == {"transactions", "ping", "todo", "other"}

OK == 200
BAD_REQUEST == 400
UNAUTHORIZED == 401
NOT_FOUND == 404
INTERNAL_SERVER_ERROR == 500
NOT_IMPLEMENTED == 501

\* StatusCode::canonical_reason, then str::replace(" ", "_") and to_uppercase.
canonical_reason(code) ==
    CASE code = BAD_REQUEST -> <<"Bad", "Request">>
      [] code = UNAUTHORIZED -> <<"Unauthorized">>
      [] code = NOT_FOUND -> <<"Not", "Found">>
      [] code = INTERNAL_SERVER_ERROR -> <<"Internal", "Server", "Error">>
      [] code = NOT_IMPLEMENTED -> <<"Not", "Implemented">>
      [] OTHER -> <<"Unknown", "error", "code">>

to_uppercase(w) ==
    CASE w = "Unauthorized" -> "UNAUTHORIZED"
      [] w = "Bad" -> "BAD"
      [] w = "Request" -> "REQUEST"
      [] w = "Not" -> "NOT"
      [] w = "Found" -> "FOUND"
      [] w = "Internal" -> "INTERNAL"
      [] w = "Server" -> "SERVER"
      [] w = "Error" -> "ERROR"
      [] w = "error" -> "ERROR"
      [] w = "Implemented" -> "IMPLEMENTED"
      [] w = "Unknown" -> "UNKNOWN"
      [] w = "code" -> "CODE"
      [] OTHER -> w

\* A text is a sequence of words; replace(" ", "_") puts "_" between them.
RECURSIVE replace_spaces(_)
replace_spaces(words) ==
    IF Len(words) <= 1 THEN words
    ELSE <<Head(words), "_">> \o replace_spaces(Tail(words))

upper_all(words) == [i \in 1..Len(words) |-> to_uppercase(words[i])]

\* ApplicationServiceInner::create_error_response
create_error_response(code) ==
    [status |-> code,
     body |-> <<"errcode", "NL.SPACEBASED.", "ID", "_">>
                  \o upper_all(replace_spaces(canonical_reason(code)))]

\* (StatusCode::OK, Json(json!({})))
EmptyOk == [status |-> OK, body |-> <<>>]

\* The rejection of the TypedHeader<Authorization<Bearer>> extractor of `authorize`:
\* the middleware function is not entered and the rejection is the response.
HeaderRejection == [status |-> BAD_REQUEST, body |-> <<"plain text">>]

NoResp == [status |-> 0, body |-> <<>>]

\* ApplicationServiceInner::is_autorized
is_autorized(tok) == tok = hs_token

(***************************************************************************)
(* Transaction bodies                                                      *)
(***************************************************************************)

\* Of a transaction body the model keeps what handle_transaction reads: the
\* device_one_time_keys_count entries and the timeline events, each read when its
\* turn comes. An entry is "good", or "bad" when ensure_device fails for it (its
\* user id does not parse); an event is "good", or "bad" when handle_event fails
\* for it (type, room_id or sender missing or unparsable). At most MaxOtk entries
\* and MaxEvents events are in a body.
Kinds == {"good", "bad"}

\* A TransactionLog entry: no entry, an entry with an empty OnceCell, or a set cell.
AbsentCell == [state |-> "absent", value |-> NoResp]
EmptyCell == [state |-> "empty", value |-> NoResp]
\* A log that keeps successful responses only and leaves the cell empty after an error.
SetCellUnlessError(v) ==
    IF v.status = INTERNAL_SERVER_ERROR THEN [state |-> "empty", value |-> NoResp]
    ELSE [state |-> "set", value |-> v]

SetCellTo(v) == [state |-> "set", value |-> v]

IdleReq == [pc |-> "idle", header |-> <<"none">>, route |-> "other", txn |-> 0,
            idx |-> 0, ret |-> NoResp, resp |-> NoResp]

InitTxn ==
    /\ transaction_log = [t \in TxnIds |-> AbsentCell]
    /\ cell_permit = [t \in TxnIds |-> 0]
    /\ req = [r \in Reqs |-> IdleReq]
    /\ closure_runs = [t \in TxnIds |-> 0]
    /\ dispatch_failed = {}

(***************************************************************************)
(* The HTTP server: ApplicationService::run's router behind `authorize`    *)
(***************************************************************************)

\* ApplicationService::authorize: the response the middleware gives instead of
\* running the route (NoResp: the request passes to next.run).
authorize(h) ==
    IF h[1] # "bearer" THEN HeaderRejection
    ELSE IF is_autorized(h[2]) THEN NoResp
    ELSE create_error_response(UNAUTHORIZED)

\* Requests are numbered in their order of arrival.
Arrives(r) == req[r].pc = "idle" /\ (IF r = 1 THEN TRUE ELSE req[r - 1].pc # "idle")

Answer(r, h, route, resp) ==
    req' = [req EXCEPT ![r] = [IdleReq EXCEPT !.pc = "done", !.header = h,
                                              !.route = route, !.resp = resp]]

TxnFrame == UNCHANGED <<devVars, roomVars, svcVars, userVars, transaction_log, cell_permit, closure_runs, dispatch_failed>>

\* A request the middleware turns away, on any route.
Unauthorized(r) ==
    /\ Arrives(r)
    /\ \E h \in Headers, route \in Routes :
          /\ authorize(h) # NoResp
          /\ Answer(r, h, route, authorize(h))
    /\ TxnFrame

\* ApplicationService::handle_ping / ApplicationServiceInner::handle_ping
HandlePing(r) ==
    /\ Arrives(r)
    /\ \E h \in Headers :
          /\ authorize(h) = NoResp
          /\ Answer(r, h, "ping", EmptyOk)
    /\ TxnFrame

\* ApplicationService::todo
Todo(r) ==
    /\ Arrives(r)
    /\ \E h \in Headers :
          /\ authorize(h) = NoResp
          /\ Answer(r, h, "todo", create_error_response(NOT_IMPLEMENTED))
    /\ TxnFrame

\* A router without the fallback handler answers an unrouted path with an empty 200.
FallbackEmptyOk(r) ==
    /\ Arrives(r)
    /\ \E h \in Headers :
          /\ authorize(h) = NoResp
          /\ Answer(r, h, "other", EmptyOk)
    /\ TxnFrame

\* ApplicationService::fallback
Fallback(r) ==
    /\ Arrives(r)
    /\ \E h \in Headers :
          /\ authorize(h) = NoResp
          /\ Answer(r, h, "other", create_error_response(NOT_FOUND))
    /\ TxnFrame

(***************************************************************************)
(* TransactionLog::lock_while and ApplicationServiceInner::handle_transaction *)
(***************************************************************************)

\* lock_while, first block: under the map's mutex, entry(txn_id).or_insert_with(new cell).
LockWhile(r) ==
    /\ Arrives(r)
    /\ \E h \in Headers, t \in TxnIds :
          /\ authorize(h) = NoResp
          /\ req' = [req EXCEPT ![r] = [IdleReq EXCEPT !.pc = "cell", !.header = h,
                                          !.route = "transactions", !.txn = t]]
          /\ transaction_log' =
                 [transaction_log EXCEPT ![t] = IF @.state = "absent" THEN EmptyCell ELSE @]
    /\ UNCHANGED <<devVars, roomVars, svcVars, userVars, cell_permit, closure_runs, dispatch_failed>>

\* OnceCell::get_or_init on an initialised cell: the stored value, `op` is dropped.
GetCached(r) ==
    LET t == req[r].txn IN
    /\ req[r].pc = "cell"
    /\ transaction_log[t].state = "set"
    /\ req' = [req EXCEPT ![r].pc = "done", ![r].resp = transaction_log[t].value]
    /\ TxnFrame

\* A get_or_init that only looks at the value and not at the permit.
MayInitUnguarded(r, t) == transaction_log[t].state = "empty"

\* Whether get_or_init lets request r start `op`: the cell is not initialised and
\* its permit is free.
MayInit(r, t) == transaction_log[t].state = "empty" /\ cell_permit[t] = 0

\* OnceCell::get_or_init on an empty cell: take the permit and start `op`, the
\* closure || inner.handle_transaction(&txn_id, body).
GetOrInit(r) ==
    LET t == req[r].txn IN
    /\ req[r].pc = "cell"
    /\ MayInit(r, t)
    /\ req' = [req EXCEPT ![r].pc = "extract", ![r].idx = 0]
    /\ cell_permit' = [cell_permit EXCEPT ![t] = r]
    /\ closure_runs' = [closure_runs EXCEPT ![t] = @ + 1]
    /\ UNCHANGED <<devVars, roomVars, svcVars, userVars, transaction_log, dispatch_failed>>

\* extract_sync_tasks, one device_one_time_keys_count entry: ensure_device and
\* send_sync_changes (idx entries are done); an error returns the 500 of
\* handle_transaction; after the last entry the events are handled.
ExtractSyncTasks(r) ==
    LET t == req[r].txn
        i == req[r].idx IN
    /\ req[r].pc = "extract"
    /\ \/ req' = [req EXCEPT ![r].pc = "events", ![r].idx = 0]
       \/ /\ i < MaxOtk
          /\ \E entry \in Kinds :
                IF entry = "good"
                THEN req' = [req EXCEPT ![r].idx = i + 1]
                ELSE req' = [req EXCEPT ![r].pc = "return",
                                ![r].ret = create_error_response(INTERNAL_SERVER_ERROR)]
    /\ UNCHANGED <<devVars, roomVars, svcVars, userVars, transaction_log, cell_permit, closure_runs, dispatch_failed>>

\* A handle_transaction that logs the error of handle_event and goes on.
OnEventErrorSwallowed(r) == [req EXCEPT ![r].idx = @ + 1]

\* What handle_transaction does when handle_event returned Err for an event.
OnEventError(r) ==
    [req EXCEPT ![r].pc = "return",
                ![r].ret = create_error_response(INTERNAL_SERVER_ERROR)]

\* handle_transaction's `for event in events`: one handle_event call (idx events
\* are done); after the last event the closure returns 200 {}.
HandleEvent(r) ==
    LET t == req[r].txn
        i == req[r].idx IN
    /\ req[r].pc = "events"
    /\ \/ /\ req' = [req EXCEPT ![r].pc = "return", ![r].ret = EmptyOk]
          /\ UNCHANGED dispatch_failed
       \/ /\ i < MaxEvents
          /\ \E event \in Kinds :
                IF event = "good"
                THEN /\ req' = [req EXCEPT ![r].idx = i + 1]
                     /\ UNCHANGED dispatch_failed
                ELSE /\ req' = OnEventError(r)
                     /\ dispatch_failed' = dispatch_failed \cup {t}
    /\ UNCHANGED <<devVars, roomVars, svcVars, userVars, transaction_log, cell_permit, closure_runs>>

\* get_or_init, after `op` returned: the value is stored in the cell, the permit is
\* released and lock_while returns a clone of the value.
SetCell(r) ==
    LET t == req[r].txn IN
    /\ req[r].pc = "return"
    /\ transaction_log' = [transaction_log EXCEPT ![t] = SetCellTo(req[r].ret)]
    /\ cell_permit' = [cell_permit EXCEPT ![t] = 0]
    /\ req' = [req EXCEPT ![r].pc = "done", ![r].resp = req[r].ret,
                          ![r].idx = 0, ![r].ret = NoResp]
    /\ UNCHANGED <<devVars, roomVars, svcVars, userVars, closure_runs, dispatch_failed>>

NextTxn ==
    \E r \in Reqs :
        \/ Unauthorized(r)
        \/ HandlePing(r)
        \/ Todo(r)
        \/ Fallback(r)
        \/ LockWhile(r)
        \/ GetCached(r)
        \/ GetOrInit(r)
        \/ ExtractSyncTasks(r)
        \/ HandleEvent(r)
        \/ SetCell(r)

(***************************************************************************)
(* Device: run, stop and the sync loop (appservice/device.rs)              *)
(***************************************************************************)

Runners == 1..NumRunners

\* tokio::sync::mpsc::channel(50)
QueueCapacity == 50

Intervals == {"sleep", "presence"}

IdleRun == [pc |-> "idle", result |-> "none"]

\* DeviceInner::new
InitDev ==
    /\ token = 0
    /\ cancelled = {}
    /\ receiver = TRUE
    /\ queue = <<>>
    /\ sent = 0
    /\ synced = <<>>
    /\ due = {}
    /\ run = [p \in Runners |-> IdleRun]
    /\ stop_pending = FALSE
    /\ parked = <<>>

Loops == {p \in Runners : run[p].pc = "loop"}

\* Device::run up to the intervals: user(), populate_known_rooms, get_encrypted_members
\* and update_tracked_users. In this specification the user has no joined rooms, so
\* the room cache is not touched; each of the calls may fail, which ends run with Err.
RunSetup(p) ==
    /\ run[p].pc = "idle"
    /\ \E ok \in BOOLEAN :
          run' = [run EXCEPT ![p] = IF ok THEN [pc |-> "token", result |-> "none"]
                                          ELSE [pc |-> "idle", result |-> "Err"]]
    /\ UNCHANGED <<txnVars, roomVars, svcVars, userVars, parked, token, cancelled, receiver, queue, sent, synced, due, stop_pending>>

\* Device::run: `let token = CancellationToken::new(); *lock = Some(token.clone())`.
\* The token of an earlier call of p is referenced by nothing once this one is stored.
RunStoreToken(p) ==
    /\ run[p].pc = "token"
    /\ token' = p
    /\ cancelled' = cancelled \ {p}
    /\ run' = [run EXCEPT ![p].pc = "take"]
    /\ UNCHANGED <<txnVars, roomVars, svcVars, userVars, parked, receiver, queue, sent, synced, due, stop_pending>>

\* A take_receiver that hands out the consumer and leaves it in the slot.
take_receiver_kept(slot) == slot

\* Device::take_receiver: lock.take(), the slot is left None.
take_receiver(slot) == FALSE

\* Device::run: `self.take_receiver().await?` and tokio::spawn of the loop, whose
\* two intervals tick at once the first time; or Err(MultipleSync).
RunTakeReceiver(p) ==
    /\ run[p].pc = "take"
    /\ IF receiver
       THEN /\ receiver' = take_receiver(receiver)
            /\ run' = [run EXCEPT ![p].pc = "loop"]
            /\ due' = Intervals
       ELSE /\ run' = [run EXCEPT ![p] = [pc |-> "idle", result |-> "MultipleSync"]]
            /\ UNCHANGED <<txnVars, roomVars, svcVars, userVars, parked, receiver, due>>
    /\ UNCHANGED <<txnVars, roomVars, svcVars, userVars, parked, token, cancelled, queue, sent, synced, stop_pending>>

\* A loop that ends without return_receiver.
LoopCancelledKeepsReceiver(p) ==
    /\ run[p].pc = "loop"
    /\ p \in cancelled
    /\ run' = [run EXCEPT ![p] = [pc |-> "idle", result |-> "Ok"]]
    /\ due' = {}
    /\ stop_pending' = FALSE
    /\ parked' = queue
    /\ UNCHANGED <<txnVars, roomVars, svcVars, userVars, token, cancelled, receiver, queue, sent, synced>>

\* The loop's select, first branch: token.cancelled(). The receiver is returned, the
\* task ends and run returns Ok.
LoopCancelled(p) ==
    /\ run[p].pc = "loop"
    /\ p \in cancelled
    /\ receiver' = TRUE
    /\ run' = [run EXCEPT ![p] = [pc |-> "idle", result |-> "Ok"]]
    /\ due' = {}
    /\ stop_pending' = FALSE
    /\ parked' = queue
    /\ UNCHANGED <<txnVars, roomVars, svcVars, userVars, token, cancelled, queue, sent, synced>>

\* A loop whose recv yields the newest batch of the queue.
LoopRecvNewest(p) ==
    /\ run[p].pc = "loop"
    /\ p \notin cancelled
    /\ queue # <<>>
    /\ synced' = Append(synced, queue[Len(queue)])
    /\ queue' = SubSeq(queue, 1, Len(queue) - 1)
    /\ UNCHANGED <<txnVars, roomVars, svcVars, userVars, parked, token, cancelled, receiver, sent, due, run, stop_pending>>

\* Second branch: receiver.recv() yields a batch, which goes to Encryption::sync;
\* an error of sync is logged.
LoopRecv(p) ==
    /\ run[p].pc = "loop"
    /\ p \notin cancelled
    /\ queue # <<>>
    /\ synced' = Append(synced, Head(queue))
    /\ queue' = Tail(queue)
    /\ UNCHANGED <<txnVars, roomVars, svcVars, userVars, parked, token, cancelled, receiver, sent, due, run, stop_pending>>

\* A select without order: the tick is taken although a batch is pending.
LoopSleepTickUnordered(p) ==
    /\ run[p].pc = "loop"
    /\ p \notin cancelled
    /\ "sleep" \in due
    /\ due' = due \ {"sleep"}
    /\ UNCHANGED <<txnVars, roomVars, svcVars, userVars, parked, token, cancelled, receiver, queue, sent, synced, run, stop_pending>>

\* Third branch: sleep_interval.tick(), then send_outgoing_requests.
LoopSleepTick(p) ==
    /\ run[p].pc = "loop"
    /\ p \notin cancelled
    /\ queue = <<>>
    /\ "sleep" \in due
    /\ due' = due \ {"sleep"}
    /\ UNCHANGED <<txnVars, roomVars, svcVars, userVars, parked, token, cancelled, receiver, queue, sent, synced, run, stop_pending>>

\* Fourth branch: presence_interval.tick(), then set_presence(Online).
LoopPresenceTick(p) ==
    /\ run[p].pc = "loop"
    /\ p \notin cancelled
    /\ queue = <<>>
    /\ "sleep" \notin due
    /\ "presence" \in due
    /\ due' = due \ {"presence"}
    /\ UNCHANGED <<txnVars, roomVars, svcVars, userVars, parked, token, cancelled, receiver, queue, sent, synced, run, stop_pending>>

LoopStep(p) ==
    \/ LoopCancelled(p)
    \/ LoopRecv(p)
    \/ LoopSleepTick(p)
    \/ LoopPresenceTick(p)

\* Time passes: an interval of the running loop becomes due.
Elapse(k) ==
    /\ Loops # {}
    /\ k \notin due
    /\ due' = due \cup {k}
    /\ UNCHANGED <<txnVars, roomVars, svcVars, userVars, parked, token, cancelled, receiver, queue, sent, synced, run, stop_pending>>

\* Device::stop: under the token mutex, cancel the stored token and clear the slot.
Stop ==
    /\ token # 0
    /\ cancelled' = cancelled \cup {token}
    /\ token' = 0
    /\ stop_pending' = (stop_pending \/ Loops # {})
    /\ UNCHANGED <<txnVars, roomVars, svcVars, userVars, parked, receiver, queue, sent, synced, due, run>>

\* Device::stop with the slot None: nothing is cancelled.
StopIdle ==
    /\ token = 0
    /\ stop_pending' = (stop_pending \/ Loops # {})
    /\ UNCHANGED <<txnVars, roomVars, svcVars, userVars, parked, token, cancelled, receiver, queue, sent, synced, due, run>>

\* Device::send_sync_changes: sender.send(changes), which waits while the channel is full.
SendSyncChanges ==
    /\ sent < MaxBatches
    /\ Len(queue) < QueueCapacity
    /\ sent' = sent + 1
    /\ queue' = Append(queue, sent + 1)
    /\ UNCHANGED <<txnVars, roomVars, svcVars, userVars, parked, token, cancelled, receiver, synced, due, run, stop_pending>>

\* A send_sync_changes that does not wait for a free slot of the channel.
SendSyncChangesUnbounded ==
    /\ sent < MaxSends
    /\ sent' = sent + 1
    /\ queue' = Append(queue, sent + 1)
    /\ UNCHANGED <<txnVars, roomVars, svcVars, userVars, parked, token, cancelled, receiver, synced, due, run, stop_pending>>

\* Device::send_sync_changes of a transaction processor that has up to MaxSends
\* batches for the device: sender.send(changes) completes when the channel has a
\* free slot and waits while it is full.
SendSyncChangesBurst ==
    /\ sent < MaxSends
    /\ Len(queue) < QueueCapacity
    /\ sent' = sent + 1
    /\ queue' = Append(queue, sent + 1)
    /\ UNCHANGED <<txnVars, roomVars, svcVars, userVars, parked, token, cancelled, receiver, synced, due, run, stop_pending>>

\* A Device with one run caller whose loop is not stopped, and a producer that can
\* fill the channel.
NextQueue ==
    \/ RunSetup(1)
    \/ RunStoreToken(1)
    \/ RunTakeReceiver(1)
    \/ LoopRecv(1)
    \/ LoopSleepTick(1)
    \/ LoopPresenceTick(1)
    \/ \E k \in Intervals : Elapse(k)
    \/ SendSyncChangesBurst

NextDev ==
    \/ \E p \in Runners :
          \/ RunSetup(p)
          \/ RunStoreToken(p)
          \/ RunTakeReceiver(p)
          \/ LoopCancelled(p)
          \/ LoopRecv(p)
          \/ LoopSleepTick(p)
          \/ LoopPresenceTick(p)
    \/ \E k \in Intervals : Elapse(k)
    \/ Stop
    \/ StopIdle
    \/ SendSyncChanges


(***************************************************************************)
(* RoomStore (appservice/room.rs)                                          *)
(***************************************************************************)

RoomIds == {"!r1:h", "!r2:h"}
UserIds == {"@a:h", "@b:h"}

\* An entry of the room map: RoomKind::Encrypted(RoomInfo) or
\* RoomKind::Unencrypted(RoomInfo); `cached` is FALSE for an id without entry.
NoRoom == [cached |-> FALSE, kind |-> "Unencrypted", members |-> {}]
RoomKind(kind, members) == [cached |-> TRUE, kind |-> kind, members |-> members]

\* RoomKind::is_encrypted, for the entry of r in the map rs.
is_encrypted(rs, r) == rs[r].cached /\ rs[r].kind = "Encrypted"

\* RoomInfo::add_member and RoomInfo::remove_member on a member set.
add_member(members, mxid) == members \cup {mxid}

\* A remove_member that leaves the set as it is.
remove_member_kept(members, mxid) == members

remove_member(members, mxid) == members \ {mxid}

\* Room::from_homeserver: the homeserver's answers to the encryption-state query and
\* the joined-members query make the entry.
from_homeserver(is_enc, joined_members) ==
    RoomKind(IF is_enc THEN "Encrypted" ELSE "Unencrypted", joined_members)

HomeserverRooms == {from_homeserver(e, m) : e \in BOOLEAN, m \in SUBSET UserIds}

\* RoomStore::get_encrypted_members: the loop over rooms.values().
RECURSIVE accumulate(_, _, _)
accumulate(todo, mxid, accumulator) ==
    IF todo = {} THEN accumulator
    ELSE LET r == CHOOSE x \in todo : TRUE IN
         accumulate(todo \ {r}, mxid,
                    IF rooms[r].kind = "Encrypted" /\ mxid \in rooms[r].members
                    THEN accumulator \cup rooms[r].members
                    ELSE accumulator)

\* The same loop without the match on RoomKind::Encrypted.
RECURSIVE accumulate_any_kind(_, _, _)
accumulate_any_kind(todo, mxid, accumulator) ==
    IF todo = {} THEN accumulator
    ELSE LET r == CHOOSE x \in todo : TRUE IN
         accumulate_any_kind(todo \ {r}, mxid,
                    IF mxid \in rooms[r].members
                    THEN accumulator \cup rooms[r].members
                    ELSE accumulator)

get_encrypted_members_any_kind(mxid) ==
    accumulate_any_kind({r \in RoomIds : rooms[r].cached}, mxid, {mxid})

get_encrypted_members(mxid) ==
    accumulate({r \in RoomIds : rooms[r].cached}, mxid, {mxid})

\* The history variable ev: the call the last step belongs to, whether the step is
\* the call's map block ("call"), the insert of an upgrade ("write") or the end of
\* the recomputation ("return"), what the call returned ("pending" while it goes
\* on), and for a remove whether RoomInfo::remove_member returned true.
NoEvent == [op |-> "none", phase |-> "-", room |-> "-", user |-> "-", ret |-> "-",
            removed |-> FALSE]

Event(op, phase, r, u, ret, removed) ==
    [op |-> op, phase |-> phase, room |-> r, user |-> u, ret |-> ret,
     removed |-> removed]

\* A call in flight past its map block: where it is and the locals it still uses
\* (the room, and the copied member set of an upgrade), with the result of
\* remove_member, which the code drops.
Call(pc, op, r, snap, removed) ==
    [pc |-> pc, op |-> op, room |-> r, snap |-> snap, removed |-> removed]

\* RoomStore::new
InitRoom ==
    /\ rooms = [r \in RoomIds |-> NoRoom]
    /\ calls = EmptyBag
    /\ ev = NoEvent

\* At most NumTasks tasks are inside the RoomStore at a time.
MayCall == BagCardinality(calls) < NumTasks

\* The call goes on to update_tracked_users after the map lock is released.
ToTrack(op, r, u, removed) ==
    /\ calls' = calls (+) SetToBag({Call("track", op, r, {}, removed)})
    /\ ev' = Event(op, "call", r, u, "pending", removed)

\* The call returns from its map block.
Returns(op, r, u, ret, removed) ==
    /\ UNCHANGED calls
    /\ ev' = Event(op, "call", r, u, ret, removed)

\* RoomStore::add_room_member, the block under rooms.write(): add the member to the
\* cached room, or create the entry from the homeserver (create_room may fail); then
\* return Ok for an unencrypted room.
AddRoomMember ==
    /\ MayCall
    /\ \E r \in RoomIds, u \in UserIds :
          IF rooms[r].cached
          THEN /\ rooms' = [rooms EXCEPT ![r].members = add_member(@, u)]
               /\ IF is_encrypted(rooms, r)
                  THEN ToTrack("add", r, u, FALSE)
                  ELSE Returns("add", r, u, "Ok", FALSE)
          ELSE \/ /\ UNCHANGED rooms
                  /\ Returns("add", r, u, "Err", FALSE)
               \/ \E room \in HomeserverRooms :
                     /\ rooms' = [rooms EXCEPT ![r] = room]
                     /\ IF room.kind = "Encrypted"
                        THEN ToTrack("add", r, u, FALSE)
                        ELSE Returns("add", r, u, "Ok", FALSE)
    /\ UNCHANGED <<txnVars, devVars, userVars, svcVars>>

\* RoomStore::remove_room_member, the block under rooms.write().
RemoveRoomMember ==
    /\ MayCall
    /\ \E r \in RoomIds, u \in UserIds :
          IF rooms[r].cached
          THEN /\ rooms' = [rooms EXCEPT ![r].members = remove_member(@, u)]
               /\ IF is_encrypted(rooms, r)
                  THEN ToTrack("remove", r, u, u \in rooms[r].members)
                  ELSE Returns("remove", r, u, "Ok", u \in rooms[r].members)
          ELSE /\ UNCHANGED rooms
               /\ Returns("remove", r, u, "Ok", FALSE)
    /\ UNCHANGED <<txnVars, devVars, userVars, svcVars>>

\* RoomStore::upgrade_room_encryption, the block under rooms.read(): return Ok for an
\* unknown or an encrypted room, else copy the joined members.
UpgradeRead ==
    /\ MayCall
    /\ \E r \in RoomIds :
          IF rooms[r].cached /\ rooms[r].kind = "Unencrypted"
          THEN /\ calls' = calls (+) SetToBag({Call("write", "upgrade", r,
                                                    rooms[r].members, FALSE)})
               /\ ev' = Event("upgrade", "call", r, "-", "pending", FALSE)
          ELSE Returns("upgrade", r, "-", "Ok", FALSE)
    /\ UNCHANGED <<txnVars, devVars, userVars, svcVars, rooms>>

\* upgrade_room_encryption: RoomKind::new_encrypted(room_id, joined_members) and
\* rooms.write().insert.
UpgradeWrite ==
    \E c \in BagToSet(calls) :
        /\ c.pc = "write"
        /\ rooms' = [rooms EXCEPT ![c.room] = RoomKind("Encrypted", c.snap)]
        /\ calls' = (calls (-) SetToBag({c}))
                       (+) SetToBag({Call("track", "upgrade", c.room, {}, FALSE)})
        /\ ev' = Event("upgrade", "write", c.room, "-", "pending", FALSE)
        /\ UNCHANGED <<txnVars, devVars, userVars, svcVars>>

\* The ids populate_known_rooms creates entries for.
new_ids_all(ids) == ids

new_ids(ids) == ids \ {r \in RoomIds : rooms[r].cached}

\* RoomStore::populate_known_rooms, all under rooms.write(): an entry is created for
\* each new id, in any order, until a create_room fails.
PopulateKnownRooms ==
    /\ MayCall
    /\ \E ids \in SUBSET RoomIds : \E created \in SUBSET new_ids(ids) :
          /\ \E f \in [created -> HomeserverRooms] :
                rooms' = [r \in RoomIds |-> IF r \in created THEN f[r] ELSE rooms[r]]
          /\ Returns("populate", "-", "-",
                     IF created = new_ids(ids) THEN "Ok" ELSE "Err", FALSE)
    /\ UNCHANGED <<txnVars, devVars, userVars, svcVars>>

\* RoomStore::update_tracked_users at the end of add_room_member, remove_room_member
\* and upgrade_room_encryption: the tracked users of the room's appservice users are
\* recomputed in their crypto adapters, which may fail; the call returns the result.
UpdateTrackedUsers ==
    \E c \in BagToSet(calls) :
        /\ c.pc = "track"
        /\ \E ret \in {"Ok", "Err"} :
              ev' = Event(c.op, "return", c.room, "-", ret, c.removed)
        /\ calls' = calls (-) SetToBag({c})
        /\ UNCHANGED <<txnVars, devVars, userVars, svcVars, rooms>>

NextRoom ==
    \/ AddRoomMember
    \/ RemoveRoomMember
    \/ UpgradeRead
    \/ UpgradeWrite
    \/ PopulateKnownRooms
    \/ UpdateTrackedUsers

(***************************************************************************)
(* UserStore, ensure_device and the devices it creates                      *)
(* (appservice/handler.rs, appservice/user.rs, appservice/encryption.rs)    *)
(***************************************************************************)

\* The ensure_device calls, numbered in the order in which they start. A UserInner
\* and a DeviceInner are named by the call that created them.
Ensures == 1..NumEnsures
Mxids == {"@a:h", "@b:h"}
DeviceIds == {"D1", "D2"}

\* A DeviceInner: its device_id, the user it was created for, whether ensure_device
\* spawned device.run() for it, and the batches sent to its channel, each named by
\* the device_one_time_keys_count entry (mxid, device_id) it was built from.
NoDevice == [live |-> FALSE, id |-> "-", owner |-> "-", spawned |-> FALSE,
             inbox |-> <<>>]

IdleEnsure == [pc |-> "idle", mxid |-> "-", device_id |-> "-", user |-> 0,
               device |-> 0, spawn |-> FALSE, result |-> "none"]

\* No operation on the OlmMachine: neither by the loop task nor by another task.
NoCrypto == [loop |-> "idle", others |-> 0]

\* UserStore::new; no user and no device exists.
InitUser ==
    /\ user_store = [u \in Mxids |-> 0]
    /\ device = [k \in Ensures |-> 0]
    /\ devices = [k \in Ensures |-> NoDevice]
    /\ ensure = [c \in Ensures |-> IdleEnsure]
    /\ crypto = [k \in Ensures |-> NoCrypto]

\* ensure_device(mxid, device_id): self.get_user(mxid), a read of the user map.
GetUser(c) ==
    /\ ensure[c].pc = "idle"
    /\ IF c = 1 THEN TRUE ELSE ensure[c - 1].pc # "idle"
    /\ \E u \in Mxids, d \in DeviceIds :
          ensure' = [ensure EXCEPT ![c] =
                        [IdleEnsure EXCEPT !.mxid = u, !.device_id = d,
                                           !.user = user_store[u],
                                           !.pc = IF user_store[u] = 0
                                                  THEN "create_user"
                                                  ELSE "get_device"]]
    /\ UNCHANGED <<txnVars, devVars, roomVars, svcVars, user_store, device, devices, crypto>>

\* Some(user) => user.get_device(): the device in the slot is the result, whatever
\* its id; with an empty slot the call goes on to create_device, without a spawn.
GetDevice(c) ==
    /\ ensure[c].pc = "get_device"
    /\ ensure' = [ensure EXCEPT ![c].device = device[ensure[c].user],
                                ![c].pc = IF device[ensure[c].user] = 0
                                          THEN "create_device" ELSE "send"]
    /\ UNCHANGED <<txnVars, devVars, roomVars, svcVars, user_store, device, devices, crypto>>

\* None => self.create_user(mxid): User::new inserts a new UserInner into the map,
\* in the place of the entry another call may have inserted meanwhile.
CreateUser(c) ==
    /\ ensure[c].pc = "create_user"
    /\ user_store' = [user_store EXCEPT ![ensure[c].mxid] = c]
    /\ ensure' = [ensure EXCEPT ![c].user = c, ![c].spawn = TRUE,
                                ![c].pc = "create_device"]
    /\ UNCHANGED <<txnVars, devVars, roomVars, svcVars, device, devices, crypto>>

\* user.create_device(Some(device_id)): DeviceInner::new opens the crypto store of
\* the device id (which may fail, and ensure_device returns the error) and the new
\* DeviceInner is written into the user's slot; in the branch of a new user
\* tokio::spawn(device.run()) follows.
CreateDevice(c) ==
    /\ ensure[c].pc = "create_device"
    /\ \/ /\ ensure' = [ensure EXCEPT ![c].pc = "done", ![c].result = "Err"]
          /\ UNCHANGED <<device, devices>>
       \/ /\ devices' = [devices EXCEPT ![c] =
                            [live |-> TRUE, id |-> ensure[c].device_id,
                             owner |-> ensure[c].mxid, spawned |-> ensure[c].spawn,
                             inbox |-> <<>>]]
          /\ device' = [device EXCEPT ![ensure[c].user] = c]
          /\ ensure' = [ensure EXCEPT ![c].device = c, ![c].pc = "send"]
    /\ UNCHANGED <<txnVars, devVars, roomVars, svcVars, user_store, crypto>>

\* extract_sync_tasks: device.send_sync_changes(sync_changes) on the device that
\* ensure_device returned, for the entry (mxid, device_id).
SendToEnsured(c) ==
    /\ ensure[c].pc = "send"
    /\ devices' = [devices EXCEPT ![ensure[c].device].inbox =
                      Append(@, <<ensure[c].mxid, ensure[c].device_id>>)]
    /\ ensure' = [ensure EXCEPT ![c].pc = "done", ![c].result = "Ok"]
    /\ UNCHANGED <<txnVars, devVars, roomVars, svcVars, user_store, device, crypto>>

\* The loop task of a spawned device: receiver.recv() and the start of
\* Encryption::sync on the device's OlmMachine.
SyncBegin(k) ==
    /\ devices[k].spawned
    /\ devices[k].inbox # <<>>
    /\ crypto[k].loop = "idle"
    /\ devices' = [devices EXCEPT ![k].inbox = Tail(@)]
    /\ crypto' = [crypto EXCEPT ![k].loop = "sync"]
    /\ UNCHANGED <<txnVars, devVars, roomVars, svcVars, user_store, device, ensure>>

\* Encryption::sync returns to the loop.
SyncEnd(k) ==
    /\ crypto[k].loop = "sync"
    /\ crypto' = [crypto EXCEPT ![k].loop = "idle"]
    /\ UNCHANGED <<txnVars, devVars, roomVars, svcVars, user_store, device, devices, ensure>>

\* on_encrypted_message, in the task that handles the transaction: for a user of
\* the room, user.get_device() and device.encryption().decrypt_event(..).
DecryptBegin(u) ==
    LET k == IF user_store[u] = 0 THEN 0 ELSE device[user_store[u]] IN
    /\ k # 0
    /\ crypto[k].others = 0
    /\ crypto' = [crypto EXCEPT ![k].others = 1]
    /\ UNCHANGED <<txnVars, devVars, roomVars, svcVars, user_store, device, devices, ensure>>

\* decrypt_event returns to the handler.
DecryptEnd(k) ==
    /\ crypto[k].others = 1
    /\ crypto' = [crypto EXCEPT ![k].others = 0]
    /\ UNCHANGED <<txnVars, devVars, roomVars, svcVars, user_store, device, devices, ensure>>

NextUser ==
    \/ \E c \in Ensures :
          \/ GetUser(c)
          \/ GetDevice(c)
          \/ CreateUser(c)
          \/ CreateDevice(c)
          \/ SendToEnsured(c)
          \/ SyncBegin(c)
          \/ SyncEnd(c)
          \/ DecryptEnd(c)
    \/ \E u \in Mxids : DecryptBegin(u)

(***************************************************************************)
(* add_room_member and Room::from_homeserver, with the lock of the room map *)
(* and the homeserver queries (appservice/room.rs)                          *)
(***************************************************************************)

Fetchers == 1..NumFetchers

\* What the homeserver answers to GET .../state/m.room.encryption: the state (200),
\* no such state (404), another error status (500), or the request fails in
\* transport.
EncryptionAnswers == {"200", "404", "500", "transport"}

\* What comes back for GET .../joined_members: the set of joined members, or a
\* mark for an error status or a failure in transport.
JoinedAnswers == {{"status"}, {"transport"}} \cup SUBSET UserIds

\* Room::get_encryption: `send().await?`, then Ok(true) for a success status and
\* Ok(false) for every error status.
get_encryption(answer) ==
    IF answer = "transport" THEN "Err"
    ELSE IF answer = "200" THEN "true" ELSE "false"

\* Room::get_joined_members: `send().await?` and parse_response, which is Err for an
\* error status.
get_joined_members(answer) ==
    IF answer \in {{"transport"}, {"status"}} THEN "Err" ELSE "Ok"

\* A call of add_room_member: where it is, its room, the answers to the two queries
\* of from_homeserver ("-": not asked, "sent": in flight), its result, and whether
\* it inserted an entry.
IdleFetch == [pc |-> "idle", room |-> "-", encryption |-> "-", joined |-> {"-"},
              result |-> "none", inserted |-> FALSE]

InitFetch ==
    /\ rooms_lock = 0
    /\ fetch = [t \in Fetchers |-> IdleFetch]

FetchFrame == UNCHANGED <<txnVars, devVars, userVars, calls, ev, exceptFetch>>

\* add_room_member(room_id, mxid): `self.rooms.write().await`, granted when no other
\* call holds the lock. For a cached room the member is added and the block ends;
\* for an unknown room create_room starts Room::from_homeserver, whose try_join!
\* sends both queries, and the guard stays alive across the await.
AcquireWrite(t) ==
    /\ fetch[t].pc = "idle"
    /\ rooms_lock = 0
    /\ \E r \in RoomIds, u \in UserIds :
          IF rooms[r].cached
          THEN /\ rooms' = [rooms EXCEPT ![r].members = add_member(@, u)]
               /\ fetch' = [fetch EXCEPT ![t] = [IdleFetch EXCEPT !.pc = "unlocked",
                                                                  !.room = r]]
               /\ UNCHANGED rooms_lock
          ELSE /\ rooms_lock' = t
               /\ fetch' = [fetch EXCEPT ![t] = [IdleFetch EXCEPT !.pc = "query",
                                                                  !.room = r,
                                                                  !.encryption = "sent",
                                                                  !.joined = {"sent"}]]
               /\ UNCHANGED rooms
    /\ FetchFrame

\* The answer to the encryption-state query arrives.
EncryptionReply(t) ==
    /\ fetch[t].pc = "query"
    /\ fetch[t].encryption = "sent"
    /\ \E a \in EncryptionAnswers : fetch' = [fetch EXCEPT ![t].encryption = a]
    /\ UNCHANGED <<rooms, rooms_lock>>
    /\ FetchFrame

\* The answer to the joined-members query arrives.
JoinedReply(t) ==
    /\ fetch[t].pc = "query"
    /\ fetch[t].joined = {"sent"}
    /\ \E a \in JoinedAnswers : fetch' = [fetch EXCEPT ![t].joined = a]
    /\ UNCHANGED <<rooms, rooms_lock>>
    /\ FetchFrame

\* try_join! returns Err as soon as one of the two futures is Err: `?` leaves
\* from_homeserver, create_room and add_room_member, and the guard is dropped.
CreateFails(t) ==
    /\ fetch[t].pc = "query"
    /\ \/ fetch[t].encryption \in EncryptionAnswers
             /\ get_encryption(fetch[t].encryption) = "Err"
       \/ fetch[t].joined \in JoinedAnswers
             /\ get_joined_members(fetch[t].joined) = "Err"
    /\ fetch' = [fetch EXCEPT ![t].pc = "done", ![t].result = "Err"]
    /\ rooms_lock' = 0
    /\ UNCHANGED rooms
    /\ FetchFrame

\* Both futures are Ok: from_homeserver builds the room, add_room_member inserts it
\* and the guard is dropped.
CreateInserts(t) ==
    /\ fetch[t].pc = "query"
    /\ fetch[t].encryption \in EncryptionAnswers
    /\ fetch[t].joined \in SUBSET UserIds
    /\ get_encryption(fetch[t].encryption) # "Err"
    /\ rooms' = [rooms EXCEPT ![fetch[t].room] =
                    from_homeserver(get_encryption(fetch[t].encryption) = "true",
                                    fetch[t].joined)]
    /\ fetch' = [fetch EXCEPT ![t].pc = "unlocked", ![t].inserted = TRUE]
    /\ rooms_lock' = 0
    /\ FetchFrame

\* After the block: Ok for a room that is not encrypted, else the result of
\* update_tracked_users.
FetchReturns(t) ==
    /\ fetch[t].pc = "unlocked"
    /\ \E ret \in IF is_encrypted(rooms, fetch[t].room) THEN {"Ok", "Err"} ELSE {"Ok"} :
          fetch' = [fetch EXCEPT ![t].pc = "done", ![t].result = ret]
    /\ UNCHANGED <<rooms, rooms_lock>>
    /\ FetchFrame

NextFetch ==
    \E t \in Fetchers :
        \/ AcquireWrite(t)
        \/ EncryptionReply(t)
        \/ JoinedReply(t)
        \/ CreateFails(t)
        \/ CreateInserts(t)
        \/ FetchReturns(t)

(***************************************************************************)
(* add_room_member, remove_room_member and upgrade_room_encryption with the *)
(* recomputation of tracked users (appservice/room.rs, appservice/user.rs)  *)
(***************************************************************************)

Trackers == 1..NumTrackers

\* user.get_device() is Some: the user is in the user store and its slot is filled.
HasDevice(u) ==
    IF user_store[u] = 0 THEN FALSE ELSE device[user_store[u]] # 0

\* A RoomStore call: where it is, the operation with its room and user, the copied
\* member set of an upgrade, the users update_tracked_users still has to visit, and
\* the update_tracked_users calls made on devices, each with the set passed. `owned`
\* records the appservice users with a device that were joined to the room before or
\* after the change of the call.
IdleTrack == [pc |-> "idle", op |-> "-", room |-> "-", user |-> "-", snap |-> {},
              todo |-> {}, updates |-> {}, owned |-> {}]

InitTrack == track = [t \in Trackers |-> IdleTrack]

TrackFrame == UNCHANGED <<txnVars, devVars, userVars, calls, ev, exceptTrack>>

\* The call goes on to RoomStore::update_tracked_users with the room it holds.
Recompute(t, op, r, u, before) ==
    track' = [track EXCEPT ![t] =
                 [IdleTrack EXCEPT !.pc = "users", !.op = op, !.room = r, !.user = u,
                                   !.owned = {m \in UserIds :
                                                 /\ HasDevice(m)
                                                 /\ m \in before \cup rooms'[r].members}]]

\* add_room_member, the block under rooms.write(); Ok is returned for a room that is
\* not encrypted and Err when create_room fails.
TrackedAdd(t) ==
    /\ track[t].pc = "idle"
    /\ \E r \in RoomIds, u \in UserIds :
          IF rooms[r].cached
          THEN /\ rooms' = [rooms EXCEPT ![r].members = add_member(@, u)]
               /\ IF is_encrypted(rooms, r)
                  THEN Recompute(t, "add", r, u, rooms[r].members)
                  ELSE UNCHANGED track
          ELSE \/ UNCHANGED <<rooms, track>>
               \/ \E room \in HomeserverRooms :
                     /\ rooms' = [rooms EXCEPT ![r] = room]
                     /\ IF room.kind = "Encrypted"
                        THEN Recompute(t, "add", r, u, {})
                        ELSE UNCHANGED track
    /\ TrackFrame

\* remove_room_member, the block under rooms.write(); Ok is returned for an unknown
\* room and for a room that is not encrypted.
TrackedRemove(t) ==
    /\ track[t].pc = "idle"
    /\ \E r \in RoomIds, u \in UserIds :
          IF rooms[r].cached
          THEN /\ rooms' = [rooms EXCEPT ![r].members = remove_member(@, u)]
               /\ IF is_encrypted(rooms, r)
                  THEN Recompute(t, "remove", r, u, rooms[r].members)
                  ELSE UNCHANGED track
          ELSE UNCHANGED <<rooms, track>>
    /\ TrackFrame

\* upgrade_room_encryption, the block under rooms.read(): the joined members of an
\* unencrypted room are copied; Ok is returned for any other room.
TrackedUpgradeRead(t) ==
    /\ track[t].pc = "idle"
    /\ \E r \in RoomIds :
          IF rooms[r].cached /\ rooms[r].kind = "Unencrypted"
          THEN track' = [track EXCEPT ![t] =
                            [IdleTrack EXCEPT !.pc = "write", !.op = "upgrade",
                                              !.room = r, !.snap = rooms[r].members]]
          ELSE UNCHANGED track
    /\ UNCHANGED rooms
    /\ TrackFrame

\* upgrade_room_encryption: the new encrypted room is inserted under rooms.write().
TrackedUpgradeWrite(t) ==
    /\ track[t].pc = "write"
    /\ rooms' = [rooms EXCEPT ![track[t].room] = RoomKind("Encrypted", track[t].snap)]
    /\ Recompute(t, "upgrade", track[t].room, "-", track[t].snap)
    /\ TrackFrame

\* update_tracked_users: Room::get_appservice_users, the keys of the user store that
\* are joined members of the room.
GetAppserviceUsers(t) ==
    /\ track[t].pc = "users"
    /\ track' = [track EXCEPT ![t].pc = "visit",
                              ![t].todo = {u \in UserIds :
                                              /\ user_store[u] # 0
                                              /\ u \in rooms[track[t].room].members}]
    /\ UNCHANGED rooms
    /\ TrackFrame

\* update_tracked_users, one turn of the loop: get_encrypted_members(user) and
\* user.update_tracked_users, which passes the set to the user's device if it has
\* one; an error of the crypto adapter ends the call with Err.
VisitUser(t) ==
    /\ track[t].pc = "visit"
    /\ \E u \in track[t].todo :
          IF HasDevice(u)
          THEN \/ track' = [track EXCEPT
                               ![t].todo = @ \ {u},
                               ![t].updates = @ \cup {<<u, get_encrypted_members(u)>>}]
               \/ track' = [track EXCEPT ![t] = IdleTrack]
          ELSE track' = [track EXCEPT ![t].todo = @ \ {u}]
    /\ UNCHANGED rooms
    /\ TrackFrame

\* update_tracked_users has visited every user: the call returns Ok.
TrackReturns(t) ==
    /\ track[t].pc = "visit"
    /\ track[t].todo = {}
    /\ track' = [track EXCEPT ![t] = IdleTrack]
    /\ UNCHANGED rooms
    /\ TrackFrame

\* The RoomStore calls with their recomputation, and the ensure_device calls that
\* give appservice users their devices.
NextTrack ==
    \/ \E t \in Trackers :
          \/ TrackedAdd(t)
          \/ TrackedRemove(t)
          \/ TrackedUpgradeRead(t)
          \/ TrackedUpgradeWrite(t)
          \/ GetAppserviceUsers(t)
          \/ VisitUser(t)
          \/ TrackReturns(t)
    \/ \E c \in Ensures :
          \/ GetUser(c)
          \/ GetDevice(c)
          \/ CreateUser(c)
          \/ CreateDevice(c)

(***************************************************************************)
(* The handler registry and handle_event                                    *)
(* (appservice/event_handler.rs, appservice/handler.rs)                     *)
(***************************************************************************)

HandlerIds == 1..NumHandlers
EventTypes == {"m.room.member", "m.room.encrypted"}

\* What is wrong with a raw event: nothing; type, room_id or sender cannot be read
\* (ExtractType); or room_id or sender does not parse as an id.
Malformations == {"none", "extract", "context"}

\* How an invocation of a handler ends: the callback returns Ok, the event does not
\* deserialize as the handler's event type, or the callback returns an error. The
\* last two are logged by TypedEventHandler::handle, which returns ().
Outcomes == {"ok", "deserialize", "callback"}

\* A handle_event call: the event's type and malformation, the handlers cloned from
\* the store, the index of the next one, the handlers being awaited, the handlers
\* invoked so far with the outcome of each finished one, and the result.
IdleDispatch == [pc |-> "idle", type |-> "-", malformed |-> "none", handlers |-> <<>>,
                 idx |-> 1, running |-> {}, invoked |-> <<>>, outcomes |-> <<>>,
                 result |-> "none"]

\* EventHandlerStore::new
InitDispatch ==
    /\ event_handlers = [ty \in EventTypes |-> <<>>]
    /\ dispatch = IdleDispatch

DispatchFrame == UNCHANGED <<txnVars, devVars, roomVars, userVars, exceptDispatch>>

Registered ==
    UNION {{event_handlers[ty][i] : i \in 1..Len(event_handlers[ty])} : ty \in EventTypes}

\* EventHandlerStore::insert: the handler is pushed onto the vector of its type.
InsertHandler(h) ==
    /\ h \notin Registered
    /\ IF h = 1 THEN TRUE ELSE h - 1 \in Registered
    /\ \E ty \in EventTypes :
          event_handlers' = [event_handlers EXCEPT ![ty] = Append(@, h)]
    /\ UNCHANGED dispatch
    /\ DispatchFrame

\* handle_event up to the loop: the fields are extracted (`?`), the handlers of the
\* type are cloned from the store, and if there are any the context is parsed (`?`).
DispatchBegin ==
    /\ dispatch.pc \in {"idle", "done"}
    /\ \E ty \in EventTypes, m \in Malformations :
          LET handlers == event_handlers[ty] IN
          dispatch' =
             IF m = "extract" \/ (m = "context" /\ handlers # <<>>)
             THEN [IdleDispatch EXCEPT !.pc = "done", !.type = ty, !.malformed = m,
                                       !.result = "Err"]
             ELSE [IdleDispatch EXCEPT !.pc = "loop", !.type = ty, !.malformed = m,
                                       !.handlers = handlers]
    /\ UNCHANGED event_handlers
    /\ DispatchFrame

\* The loop: handler.handle(event.clone(), context.clone()) is called for the next
\* handler and awaited.
HandlerStart ==
    /\ dispatch.pc = "loop"
    /\ dispatch.running = {}
    /\ dispatch.idx <= Len(dispatch.handlers)
    /\ dispatch' = [dispatch EXCEPT !.running = {dispatch.handlers[dispatch.idx]},
                                    !.invoked = Append(@, dispatch.handlers[dispatch.idx]),
                                    !.idx = @ + 1]
    /\ UNCHANGED event_handlers
    /\ DispatchFrame

\* A handler that makes handle_event return its error.
HandlerEndFailing ==
    /\ dispatch.pc = "loop"
    /\ \E h \in dispatch.running, o \in Outcomes :
          dispatch' = IF o = "ok"
                      THEN [dispatch EXCEPT !.running = @ \ {h},
                                            !.outcomes = Append(@, o)]
                      ELSE [dispatch EXCEPT !.running = @ \ {h},
                                            !.outcomes = Append(@, o),
                                            !.pc = "done", !.result = "Err"]
    /\ UNCHANGED event_handlers
    /\ DispatchFrame

\* The awaited future of TypedEventHandler::handle completes, with (), whatever the
\* outcome of the handler.
HandlerEnd ==
    /\ dispatch.pc = "loop"
    /\ \E h \in dispatch.running, o \in Outcomes :
          dispatch' = [dispatch EXCEPT !.running = @ \ {h},
                                       !.outcomes = Append(@, o)]
    /\ UNCHANGED event_handlers
    /\ DispatchFrame

\* The loop is over: Ok(()).
DispatchEnd ==
    /\ dispatch.pc = "loop"
    /\ dispatch.running = {}
    /\ dispatch.idx > Len(dispatch.handlers)
    /\ dispatch' = [dispatch EXCEPT !.pc = "done", !.result = "Ok"]
    /\ UNCHANGED event_handlers
    /\ DispatchFrame

NextDispatch ==
    \/ \E h \in HandlerIds : InsertHandler(h)
    \/ DispatchBegin
    \/ HandlerStart
    \/ HandlerEnd
    \/ DispatchEnd

(***************************************************************************)
(* The iterations of the sync loop with the results of their operations     *)
(* (appservice/device.rs, appservice/encryption.rs)                         *)
(***************************************************************************)

\* The lists OlmMachine::outgoing_requests can return: requests 1..n, in order.
OutgoingLists == {[i \in 1..n |-> i] : n \in 0..MaxOutgoing}

\* An iteration of the loop: the branch of the select, whether its operation
\* returned an error (which the loop logs), and for the outgoing-request pump the
\* list it got and the requests it marked as sent.
Iteration(branch, err, list, marked) ==
    [branch |-> branch, err |-> err, list |-> list, marked |-> marked]

NoIteration == Iteration("none", FALSE, <<>>, {})

InitPump ==
    /\ last = NoIteration
    /\ erred = FALSE

\* A pump that goes on after a request that failed and reports nothing.
RECURSIVE send_outgoing_requests_skipping(_, _, _)
send_outgoing_requests_skipping(list, fails, marked) ==
    IF list = <<>> THEN [marked |-> marked, err |-> FALSE]
    ELSE send_outgoing_requests_skipping(Tail(list), fails,
            IF Head(list) \in fails THEN marked ELSE marked \cup {Head(list)})

\* Encryption::send_outgoing_requests, the loop over the list: process_outgoing_request
\* sends the request and marks it as sent; the first request that fails (in sending,
\* in reading the response or in mark_request_as_sent) ends the pump with its error.
RECURSIVE send_outgoing_requests(_, _, _)
send_outgoing_requests(list, fails, marked) ==
    IF list = <<>> THEN [marked |-> marked, err |-> FALSE]
    ELSE IF Head(list) \in fails THEN [marked |-> marked, err |-> TRUE]
    ELSE send_outgoing_requests(Tail(list), fails, marked \cup {Head(list)})

\* A loop that ends when Encryption::sync returns an error.
LoopSyncFailing(p) ==
    /\ run[p].pc = "loop"
    /\ p \notin cancelled
    /\ queue # <<>>
    /\ synced' = Append(synced, Head(queue))
    /\ queue' = Tail(queue)
    /\ erred' = (erred \/ last.err)
    /\ \E err \in BOOLEAN :
          /\ last' = Iteration("sync", err, <<>>, {})
          /\ run' = IF err THEN [run EXCEPT ![p] = [pc |-> "idle", result |-> "Err"]]
                    ELSE run
    /\ UNCHANGED <<txnVars, roomVars, userVars, exceptPump, parked, token, cancelled,
                   receiver, sent, due, stop_pending>>

\* Second branch of the select: the batch goes to Encryption::sync, whose error is
\* logged.
LoopSync(p) ==
    /\ run[p].pc = "loop"
    /\ p \notin cancelled
    /\ queue # <<>>
    /\ synced' = Append(synced, Head(queue))
    /\ queue' = Tail(queue)
    /\ erred' = (erred \/ last.err)
    /\ \E err \in BOOLEAN : last' = Iteration("sync", err, <<>>, {})
    /\ UNCHANGED <<txnVars, roomVars, userVars, exceptPump, parked, token, cancelled,
                   receiver, sent, due, run, stop_pending>>

\* Third branch: sleep_interval.tick(), then send_outgoing_requests, whose error is
\* logged: outgoing_requests() fails, or it returns a list and the pump runs over it.
LoopPump(p) ==
    /\ run[p].pc = "loop"
    /\ p \notin cancelled
    /\ queue = <<>>
    /\ "sleep" \in due
    /\ due' = due \ {"sleep"}
    /\ erred' = (erred \/ last.err)
    /\ \/ last' = Iteration("pump", TRUE, <<>>, {})
       \/ \E list \in OutgoingLists : \E fails \in SUBSET {list[i] : i \in 1..Len(list)} :
             LET done == send_outgoing_requests(list, fails, {}) IN
             last' = Iteration("pump", done.err, list, done.marked)
    /\ UNCHANGED <<txnVars, roomVars, userVars, exceptPump, parked, token, cancelled,
                   receiver, queue, sent, synced, run, stop_pending>>

\* Fourth branch: presence_interval.tick(), then set_presence(Online), whose error
\* is logged.
LoopPresence(p) ==
    /\ run[p].pc = "loop"
    /\ p \notin cancelled
    /\ queue = <<>>
    /\ "sleep" \notin due
    /\ "presence" \in due
    /\ due' = due \ {"presence"}
    /\ erred' = (erred \/ last.err)
    /\ \E err \in BOOLEAN : last' = Iteration("presence", err, <<>>, {})
    /\ UNCHANGED <<txnVars, roomVars, userVars, exceptPump, parked, token, cancelled,
                   receiver, queue, sent, synced, run, stop_pending>>

\* A Device with one run caller, its loop with the results of the operations of each
\* iteration, stop and a producer of batches.
NextPump ==
    \/ RunSetup(1)
    \/ RunStoreToken(1)
    \/ RunTakeReceiver(1)
    \/ LoopCancelled(1)
    \/ LoopSync(1)
    \/ LoopPump(1)
    \/ LoopPresence(1)
    \/ \E k \in Intervals : Elapse(k)
    \/ Stop
    \/ SendSyncChanges

(***************************************************************************)
(* extract_sync_tasks: from a transaction to the batches (handler.rs)       *)
(***************************************************************************)

\* The (user, device) keys of device_one_time_keys_count, in the order of iteration
\* of the nested BTreeMaps.
EntryOrder == <<(<<"@a:h", "D1">>), (<<"@a:h", "D2">>), (<<"@b:h", "D1">>)>>
Entries == {EntryOrder[i] : i \in 1..Len(EntryOrder)}

\* The values of an entry: the one-time-key count of its algorithm map.
Counts == {0, 1}

\* The fields to_user_id and to_device_id of a raw to-device event: an id, no such
\* field, or a field that is not a string (get_field is Err).
ToDeviceEvents ==
    [to_user_id : Mxids, to_device_id : DeviceIds]
        \cup {[to_user_id |-> "@a:h", to_device_id |-> "missing"],
              [to_user_id |-> "missing", to_device_id |-> "D1"],
              [to_user_id |-> "invalid", to_device_id |-> "missing"]}

ToDeviceLists == UNION {[1..n -> ToDeviceEvents] : n \in 0..MaxToDevice}

\* The transactions: the one-time-key counts of some entries, the entries with
\* unused fallback key types, the global device lists and the to-device events.
Transactions ==
    {[key_counts |-> k, fallback_keys |-> f, device_lists |-> l, to_device |-> e] :
        k \in UNION {[S -> Counts] : S \in SUBSET Entries},
        f \in SUBSET {EntryOrder[2]},
        l \in {"changed: @a:h", "changed: @b:h"},
        e \in ToDeviceLists}

\* The first loop of extract_sync_tasks: to_device_idx maps user and device to the
\* events addressed to them, in the order of the transaction; an event without one
\* of the two fields is left out. Events are named by their position.
RECURSIVE to_device_idx(_, _, _)
to_device_idx(to_device, i, idx) ==
    IF i > Len(to_device) THEN idx
    ELSE LET event == to_device[i]
             key == <<event.to_user_id, event.to_device_id>> IN
         to_device_idx(to_device, i + 1,
                       IF key \in Entries \cup (Mxids \X DeviceIds)
                       THEN [idx EXCEPT ![key] = Append(@, i)]
                       ELSE idx)

\* A lookup that takes the events of the user, whatever the device.
picked_events_of_user(idx, mxid, device_id) ==
    LET RECURSIVE all(_)
        all(ds) == IF ds = {} THEN <<>>
                   ELSE LET d == CHOOSE x \in ds : TRUE IN idx[<<mxid, d>>] \o all(ds \ {d})
    IN all(DeviceIds)

\* to_device_idx.get(&mxid).and_then(|devices| devices.get(&device_id)), or empty.
picked_events(idx, mxid, device_id) == idx[<<mxid, device_id>>]

\* The OwnedEncryptionSyncChanges built for an entry; `entry` names the entry it was
\* built from.
sync_changes(transaction, idx, entry) ==
    [entry |-> entry,
     to_device_events |-> picked_events(idx, entry[1], entry[2]),
     changed_devices |-> transaction.device_lists,
     one_time_keys_counts |-> transaction.key_counts[entry],
     unused_fallback_keys |-> IF entry \in transaction.fallback_keys
                              THEN {"signed_curve25519"} ELSE {},
     next_batch_token |-> "None"]

NoTransaction == [key_counts |-> <<>>, fallback_keys |-> {}, device_lists |-> "-",
                  to_device |-> <<>>]

IdleExtract == [pc |-> "idle", transaction |-> NoTransaction, todo |-> <<>>,
                result |-> "none"]

InitExtract ==
    /\ extract = IdleExtract
    /\ pushed = <<>>

ExtractFrame == UNCHANGED <<txnVars, devVars, roomVars, userVars, exceptExtract>>

\* The entries of key_counts in the order of iteration.
RECURSIVE InOrder(_, _)
InOrder(keys, i) ==
    IF i > Len(EntryOrder) THEN <<>>
    ELSE (IF EntryOrder[i] \in keys THEN <<EntryOrder[i]>> ELSE <<>>)
            \o InOrder(keys, i + 1)

\* extract_sync_tasks up to the second loop: the index is built; a field that cannot
\* be read ends the call with Err.
ExtractBegin ==
    /\ extract.pc = "idle"
    /\ \E transaction \in Transactions :
          IF \E i \in 1..Len(transaction.to_device) :
                transaction.to_device[i].to_user_id = "invalid"
          THEN extract' = [IdleExtract EXCEPT !.pc = "done",
                                              !.transaction = transaction,
                                              !.result = "Err"]
          ELSE extract' = [IdleExtract EXCEPT
                              !.pc = "entries", !.transaction = transaction,
                              !.todo = InOrder(DOMAIN transaction.key_counts, 1)]
    /\ UNCHANGED pushed
    /\ ExtractFrame

\* One turn of the second loop: ensure_device and send_sync_changes for the entry;
\* an error of either ends the call with Err.
ExtractEntry ==
    /\ extract.pc = "entries"
    /\ extract.todo # <<>>
    /\ \/ /\ pushed' = Append(pushed,
                sync_changes(extract.transaction,
                             to_device_idx(extract.transaction.to_device, 1,
                                           [e \in Mxids \X DeviceIds |-> <<>>]),
                             Head(extract.todo)))
          /\ extract' = [extract EXCEPT !.todo = Tail(@)]
       \/ /\ extract' = [extract EXCEPT !.pc = "done", !.result = "Err"]
          /\ UNCHANGED pushed
    /\ ExtractFrame

\* Every entry is done: Ok((transaction.events, transaction.ephemeral)).
ExtractEnd ==
    /\ extract.pc = "entries"
    /\ extract.todo = <<>>
    /\ extract' = [extract EXCEPT !.pc = "done", !.result = "Ok"]
    /\ UNCHANGED pushed
    /\ ExtractFrame

NextExtract ==
    \/ ExtractBegin
    \/ ExtractEntry
    \/ ExtractEnd

(***************************************************************************)
(* encrypt_event: missing sessions, room key, encryption (encryption.rs)    *)
(***************************************************************************)

\* What get_room finds for the room id: no entry, or an entry of either kind.
Lookups == {"None", "Unencrypted", "Encrypted"}

\* The answers of the homeserver to a request: a success status, an error status,
\* or no answer (reqwest's send is Err).
HttpAnswers == {"200", "500", "transport"}

IdleEncrypt == [pc |-> "idle", room_id |-> "-", room_kind |-> "-", made |-> <<>>,
                requests |-> 0, marked |-> 0, unmarked |-> 0, result |-> "none"]

InitEncrypt == encrypt = IdleEncrypt

EncryptFrame == UNCHANGED <<txnVars, devVars, roomVars, userVars, exceptEncrypt>>

\* The call ends with `result`.
EncryptReturns(call, result) == [call EXCEPT !.pc = "done", !.result = result]

\* encrypt_event up to the call of get_missing_session.
EncryptBegin ==
    /\ encrypt.pc = "idle"
    /\ \E r \in RoomIds, found \in Lookups :
          LET call == [IdleEncrypt EXCEPT !.room_id = r, !.room_kind = found] IN
          encrypt' = CASE found = "None" -> EncryptReturns(call, "RoomNotFound")
                       [] found = "Unencrypted" -> EncryptReturns(call, "RoomNotEncrypted")
                       [] OTHER -> [call EXCEPT !.pc = "get_missing_session"]
    /\ EncryptFrame

\* get_missing_session: tracked_users, update_tracked_users when a member is not
\* tracked, get_missing_sessions, and for a key claim request the send, the parsing
\* of the response and mark_request_as_sent. The body of an error status is not a
\* keys/claim response, so its parsing is Err.
GetMissingSession ==
    /\ encrypt.pc = "get_missing_session"
    /\ \/ \E olm_ok \in BOOLEAN :
             LET call == [encrypt EXCEPT !.made = Append(@, "get_missing_sessions")] IN
             encrypt' = IF olm_ok THEN [call EXCEPT !.pc = "share_room_key"]
                        ELSE EncryptReturns(call, "Err")
       \/ \E answer \in HttpAnswers, mark_ok \in BOOLEAN :
             LET claimed == [encrypt EXCEPT
                                !.made = @ \o <<"get_missing_sessions", "keys/claim">>] IN
             encrypt' = IF answer # "200" THEN EncryptReturns(claimed, "Err")
                        ELSE LET call == [claimed EXCEPT
                                             !.made = Append(@, "mark_request_as_sent")] IN
                             IF mark_ok THEN [call EXCEPT !.pc = "share_room_key"]
                             ELSE EncryptReturns(call, "Err")
    /\ EncryptFrame

\* share_room_key up to its loop: olm's share_room_key returns the to-device
\* requests that carry the room key, or Err.
ShareRoomKey ==
    /\ encrypt.pc = "share_room_key"
    /\ LET call == [encrypt EXCEPT !.made = Append(@, "share_room_key")] IN
       \/ encrypt' = EncryptReturns(call, "Err")
       \/ \E n \in 0..MaxKeyRequests :
             encrypt' = [call EXCEPT !.pc = "to_device_requests", !.requests = n]
    /\ EncryptFrame

\* One turn of the loop of share_room_key: the PUT of a to-device request; a send
\* that fails is Err; `if let Ok(response) = response.error_for_status()` marks the
\* request as sent on a success status and does nothing on an error status.
SendToDevice(answer, mark_ok) ==
    LET call == [encrypt EXCEPT !.made = Append(@, "sendToDevice"),
                                !.requests = @ - 1] IN
    CASE answer = "transport" -> EncryptReturns(call, "Err")
      [] answer = "500" -> [call EXCEPT !.unmarked = @ + 1]
      [] OTHER -> IF mark_ok
                  THEN [call EXCEPT !.made = Append(@, "mark_request_as_sent"),
                                    !.marked = @ + 1]
                  ELSE EncryptReturns([call EXCEPT
                                          !.made = Append(@, "mark_request_as_sent")],
                                      "Err")

ShareRequest ==
    /\ encrypt.pc = "to_device_requests"
    /\ encrypt.requests > 0
    /\ \E answer \in HttpAnswers, mark_ok \in BOOLEAN :
          encrypt' = SendToDevice(answer, mark_ok)
    /\ EncryptFrame

\* share_room_key returned Ok: encrypt_room_event, and its result is the result of
\* encrypt_event.
EncryptRoomEvent ==
    /\ encrypt.pc = "to_device_requests"
    /\ encrypt.requests = 0
    /\ \E olm_ok \in BOOLEAN :
          encrypt' = EncryptReturns([encrypt EXCEPT !.made = Append(@, "encrypt_room_event")],
                                    IF olm_ok THEN "Ok" ELSE "Err")
    /\ EncryptFrame

NextEncrypt ==
    \/ EncryptBegin
    \/ GetMissingSession
    \/ ShareRoomKey
    \/ ShareRequest
    \/ EncryptRoomEvent

(***************************************************************************)
(* on_encrypted_message: the built-in m.room.encrypted handler             *)
(***************************************************************************)

\* The results of dispatch_event (handle_event): Ok, or the Err of an event whose
\* type, room_id or sender cannot be read.
DispatchResults == {"Ok", "Err"}

IdleOnEncrypted == [pc |-> "idle", room_id |-> "-", cached |-> FALSE, users |-> {},
                    with_device |-> {}, can_decrypt |-> {}, todo |-> {},
                    tried |-> <<>>, dispatched |-> 0, result |-> "none"]

InitDecrypt == on_encrypted = IdleOnEncrypted

DecryptFrame == UNCHANGED <<txnVars, devVars, roomVars, userVars, exceptDecrypt>>

\* on_encrypted_message up to its loop: get_room, or RoomNotFound; then
\* get_appservice_users, the user store's keys that are joined members of the room.
\* Of these users some have a device, and some of the devices hold the session
\* the event was encrypted with.
OnEncryptedBegin ==
    /\ on_encrypted.pc = "idle"
    /\ \E r \in RoomIds, cached \in BOOLEAN, users \in SUBSET Mxids :
       \E with_device \in SUBSET users :
       \E can_decrypt \in SUBSET with_device :
          LET call == [IdleOnEncrypted EXCEPT
                          !.room_id = r, !.cached = cached, !.users = users,
                          !.with_device = with_device, !.can_decrypt = can_decrypt] IN
          on_encrypted' = IF ~cached
                          THEN [call EXCEPT !.pc = "done", !.result = "RoomNotFound"]
                          ELSE [call EXCEPT !.pc = "users", !.todo = users]
    /\ DecryptFrame

\* A loop that dispatches on a successful decryption and goes on with the next user.
TryUserContinuing ==
    /\ on_encrypted.pc = "users"
    /\ \E user \in on_encrypted.todo :
          on_encrypted' =
             IF user \notin on_encrypted.with_device
             THEN [on_encrypted EXCEPT !.todo = @ \ {user}]
             ELSE IF user \in on_encrypted.can_decrypt
                  THEN [on_encrypted EXCEPT !.todo = @ \ {user},
                                            !.tried = Append(@, user),
                                            !.dispatched = @ + 1]
                  ELSE [on_encrypted EXCEPT !.todo = @ \ {user},
                                            !.tried = Append(@, user)]
    /\ DecryptFrame

\* One turn of the loop, for the next user of the list (in no particular order):
\* without device the user is passed over; with a device decrypt_event is called;
\* on Ok the event is dispatched and the handler returns the dispatch's result.
TryUser ==
    /\ on_encrypted.pc = "users"
    /\ \E user \in on_encrypted.todo, dispatch_result \in DispatchResults :
          on_encrypted' =
             IF user \notin on_encrypted.with_device
             THEN [on_encrypted EXCEPT !.todo = @ \ {user}]
             ELSE IF user \in on_encrypted.can_decrypt
                  THEN [on_encrypted EXCEPT !.pc = "done",
                                            !.tried = Append(@, user),
                                            !.dispatched = @ + 1,
                                            !.result = dispatch_result]
                  ELSE [on_encrypted EXCEPT !.todo = @ \ {user},
                                            !.tried = Append(@, user)]
    /\ DecryptFrame

\* The loop ended without a decryption: Err(Error::DecryptEvent).
OnEncryptedEnd ==
    /\ on_encrypted.pc = "users"
    /\ on_encrypted.todo = {}
    /\ on_encrypted' = [on_encrypted EXCEPT !.pc = "done", !.result = "DecryptEvent"]
    /\ DecryptFrame

NextDecrypt ==
    \/ OnEncryptedBegin
    \/ TryUser
    \/ OnEncryptedEnd

(***************************************************************************)
(* One transaction: its batches, then its events (handler.rs)              *)
(***************************************************************************)

\* handle_transaction is past extract_sync_tasks: every entry of the transaction
\* has been through ensure_device and send_sync_changes, and at least one batch
\* was sent.
Extracted ==
    /\ \A c \in Ensures : ensure[c].pc \in {"idle", "done"}
    /\ \A c \in Ensures : ensure[c].pc = "done" => ensure[c].result = "Ok"
    /\ \E c \in Ensures : ensure[c].pc = "done"

\* `for event in events`: handle_event of an m.room.encrypted event of the
\* transaction, whose handler calls decrypt_event on the device of a user.
DispatchEncrypted == Extracted /\ \E u \in Mxids : DecryptBegin(u)

\* The entries of one transaction, the loops of the devices, and the events of the
\* transaction.
NextFeed ==
    \/ \E c \in Ensures :
          \/ GetUser(c)
          \/ GetDevice(c)
          \/ CreateUser(c)
          \/ CreateDevice(c)
          \/ SendToEnsured(c)
          \/ SyncBegin(c)
          \/ SyncEnd(c)
          \/ DecryptEnd(c)
    \/ DispatchEncrypted

(***************************************************************************)
(* ApplicationService::run: the listener, the bot's loop and the puppets'  *)
(* loops (appservice.rs, handler.rs)                                       *)
(***************************************************************************)

\* The bot's device is the device of runner 1; the puppets' devices are those that
\* ensure_device creates while transactions are served.
BotRunner == 1

\* The supervisor has made no call yet.
IdleInner == [pc |-> "ping", made |-> <<>>, result |-> "none"]

InitShutdown ==
    /\ root = [pc |-> "idle", result |-> "none"]
    /\ inner = IdleInner

ShutdownFrame == UNCHANGED <<txnVars, devVars, roomVars, userVars, exceptShutdown>>

Serving == root.pc = "serving"

\* ApplicationService::run up to the select: the router is built and the listener
\* bound (`TcpListener::bind(..).await?`); then axum::serve and inner.run are polled.
RootBind ==
    /\ root.pc = "idle"
    /\ \/ root' = [pc |-> "serving", result |-> "none"]
       \/ root' = [pc |-> "returned", result |-> "Err"]
    /\ UNCHANGED inner
    /\ ShutdownFrame

\* ApplicationServiceInner::run before bot_device.run(): the ping, create_user,
\* create_device, the profile and the registration; an error of one of them is the
\* result of inner.run, and of the select.
InnerSetupFails ==
    /\ Serving
    /\ run[BotRunner] = [pc |-> "idle", result |-> "none"]
    /\ root' = [pc |-> "returned", result |-> "Err"]
    /\ UNCHANGED inner
    /\ ShutdownFrame

\* bot_device.run() returned: inner.run returns its result, the select completes
\* with it and ApplicationService::run returns. Nothing else is done on the way.
InnerRunReturns ==
    /\ Serving
    /\ run[BotRunner].pc = "idle"
    /\ run[BotRunner].result # "none"
    /\ root' = [pc |-> "returned", result |-> run[BotRunner].result]
    /\ UNCHANGED inner
    /\ ShutdownFrame

\* bot_device.run(), called once by inner.run.
BotRun ==
    /\ Serving
    /\ \/ run[BotRunner].result = "none" /\ RunSetup(BotRunner)
       \/ RunStoreToken(BotRunner)
       \/ RunTakeReceiver(BotRunner)
       \/ LoopCancelled(BotRunner)

\* Device::stop on the bot's device, by the program that embeds the service.
BotStop == Serving /\ Stop

\* A transaction served by the listener: ensure_device and the send to the device.
ServeEnsure ==
    /\ Serving
    /\ \E c \in Ensures :
          \/ GetUser(c)
          \/ GetDevice(c)
          \/ CreateUser(c)
          \/ CreateDevice(c)
          \/ SendToEnsured(c)

\* The loop task that ensure_device spawned for a puppet's device; it is a task of
\* its own and takes its turns whatever ApplicationService::run does.
PuppetLoop == \E k \in Ensures : SyncBegin(k) \/ SyncEnd(k)

NextShutdown ==
    \/ RootBind
    \/ InnerSetupFails
    \/ InnerRunReturns
    \/ BotRun
    \/ BotStop
    \/ ServeEnsure
    \/ PuppetLoop

(***************************************************************************)
(* ApplicationServiceInner::run step by step, under the select of          *)
(* ApplicationService::run (handler.rs, appservice.rs)                     *)
(***************************************************************************)

\* What get_profile yields: the configured display name, another one, none, or Err.
Profiles == {"same", "other", "None", "Err"}

\* A call of the supervisor that skips the `?`: the next call is made whatever
\* the outcome.
InnerCallUnchecked(at, outcome, next) ==
    /\ Serving
    /\ inner.pc = at
    /\ inner' = [inner EXCEPT !.made = Append(@, <<at, outcome>>), !.pc = next]
    /\ UNCHANGED root
    /\ ShutdownFrame

\* A call of the supervisor followed by `?`: Ok goes on with `next`, Err is the
\* result of inner.run.
InnerCall(at, outcome, next) ==
    /\ Serving
    /\ inner.pc = at
    /\ inner' = IF outcome = "Err"
                THEN [inner EXCEPT !.made = Append(@, <<at, outcome>>),
                                   !.pc = "done", !.result = "Err"]
                ELSE [inner EXCEPT !.made = Append(@, <<at, outcome>>), !.pc = next]
    /\ UNCHANGED root
    /\ ShutdownFrame

Outcomes2 == {"Ok", "Err"}

\* self.ping().await?
InnerPing == \E o \in Outcomes2 : InnerCall("ping", o, "create_user")

\* self.create_user(self.mxid.as_str()).await?
InnerCreateUser == \E o \in Outcomes2 : InnerCall("create_user", o, "create_device")

\* bot_user.create_device(None).await?
InnerCreateDevice == \E o \in Outcomes2 : InnerCall("create_device", o, "get_profile")

\* match bot_user.get_profile().await: a display name that differs is set anew,
\* an Err leads to the registration, everything else to bot_device.run().
InnerGetProfile ==
    /\ Serving
    /\ inner.pc = "get_profile"
    /\ \E profile \in Profiles :
          inner' = [inner EXCEPT
                       !.made = Append(@, <<"get_profile", profile>>),
                       !.pc = CASE profile = "other" -> "set_displayname"
                                [] profile = "Err" -> "register"
                                [] OTHER -> "run"]
    /\ UNCHANGED root
    /\ ShutdownFrame

\* bot_user.register().await? in the Err arm.
InnerRegister == \E o \in Outcomes2 : InnerCall("register", o, "set_displayname")

\* bot_user.set_displayname(&displayname).await?: the last call of the Ok arm,
\* followed by the registration of the device in the Err arm.
InnerSetDisplayname ==
    \E o \in Outcomes2 :
        InnerCall("set_displayname", o,
                  IF \E i \in 1..Len(inner.made) : inner.made[i][1] = "register"
                  THEN "register_device" ELSE "run")

\* bot_device.register(Some(displayname)).await?
InnerRegisterDevice == \E o \in Outcomes2 : InnerCall("register_device", o, "run")

\* inner.run returned Err before bot_device.run(): the select completes with it.
InnerReturnsErr ==
    /\ Serving
    /\ inner.pc = "done"
    /\ root' = [pc |-> "returned", result |-> inner.result]
    /\ UNCHANGED inner
    /\ ShutdownFrame

\* The first arm of the select: axum::serve completed with an error.
ServeFails ==
    /\ Serving
    /\ root' = [pc |-> "returned", result |-> "Err"]
    /\ UNCHANGED inner
    /\ ShutdownFrame

\* bot_device.run(), entered when the steps before it succeeded.
InnerBotRun == inner.pc = "run" /\ BotRun

NextSupervise ==
    \/ RootBind
    \/ ServeFails
    \/ InnerPing
    \/ InnerCreateUser
    \/ InnerCreateDevice
    \/ InnerGetProfile
    \/ InnerRegister
    \/ InnerSetDisplayname
    \/ InnerRegisterDevice
    \/ InnerReturnsErr
    \/ InnerBotRun
    \/ BotStop
    \/ InnerRunReturns

(***************************************************************************)
(* send_outgoing_requests and process_outgoing_request, request by request *)
(* (encryption.rs)                                                         *)
(***************************************************************************)

\* The arms of the match in process_outgoing_request.
RequestKinds == {"KeysQuery", "KeysUpload", "ToDeviceRequest", "SignatureUpload",
                 "RoomMessage", "KeysClaim"}

RequestLists == UNION {[1..n -> RequestKinds] : n \in 0..MaxOutgoing}

\* What comes back for a request: no answer at all (send is Err), or a status and a
\* body, which either reads as the response type of the request or does not.
Statuses == {200, 403, 500}
Answers == {[status |-> 0, body |-> "-"]}
              \cup [status : Statuses, body : {"response", "other"}]

IdlePumping == [pc |-> "idle", list |-> <<>>, i |-> 0, answers |-> <<>>,
                http_response |-> "-", marked |-> {}, result |-> "none"]

InitRequests == pumping = IdlePumping

RequestsFrame == UNCHANGED <<txnVars, devVars, roomVars, userVars, exceptRequests>>

\* Encryption::send: the request goes out and the bytes of whatever came back are
\* put into a fresh http::Response; the status of the answer is not looked at and
\* not copied. Err when nothing came back.
send(answer) == IF answer.status = 0 THEN "Err" ELSE answer.body

\* try_from_http_response on the response built by send: Ok when the body reads as
\* the response type.
try_from_http_response(http_response) == http_response = "response"

\* send_outgoing_requests: self.olm().outgoing_requests().await?
PumpBegin ==
    /\ pumping.pc = "idle"
    /\ \/ pumping' = [IdlePumping EXCEPT !.pc = "done", !.result = "Err"]
       \/ \E list \in RequestLists :
             pumping' = [IdlePumping EXCEPT !.pc = "next", !.list = list]
    /\ RequestsFrame

\* The head of the loop: the next request, or Ok(()) after the last one.
PumpNext ==
    /\ pumping.pc = "next"
    /\ pumping' = IF pumping.i = Len(pumping.list)
                  THEN [pumping EXCEPT !.pc = "done", !.result = "Ok"]
                  ELSE [pumping EXCEPT !.pc = "send", !.i = @ + 1]
    /\ RequestsFrame

\* process_outgoing_request up to the response of self.send(..).await?; in the
\* RoomMessage arm Raw::new(..)? precedes the send. An Err ends the pump.
ProcessSend ==
    /\ pumping.pc = "send"
    /\ \/ /\ pumping.list[pumping.i] = "RoomMessage"
          /\ pumping' = [pumping EXCEPT !.pc = "done", !.result = "Err",
                                        !.answers = Append(@, "none")]
       \/ \E answer \in Answers :
             LET http_response == send(answer) IN
             pumping' = IF http_response = "Err"
                        THEN [pumping EXCEPT !.pc = "done", !.result = "Err",
                                             !.answers = Append(@, answer)]
                        ELSE [pumping EXCEPT !.pc = "parse",
                                             !.http_response = http_response,
                                             !.answers = Append(@, answer)]
    /\ RequestsFrame

\* Response::try_from_http_response(http_response)?
ProcessParse ==
    /\ pumping.pc = "parse"
    /\ pumping' = IF try_from_http_response(pumping.http_response)
                  THEN [pumping EXCEPT !.pc = "mark"]
                  ELSE [pumping EXCEPT !.pc = "done", !.result = "Err"]
    /\ RequestsFrame

\* self.olm().mark_request_as_sent(request_id, &response).await?
ProcessMark ==
    /\ pumping.pc = "mark"
    /\ \/ pumping' = [pumping EXCEPT !.pc = "next", !.marked = @ \cup {pumping.i}]
       \/ pumping' = [pumping EXCEPT !.pc = "done", !.result = "Err"]
    /\ RequestsFrame

NextRequests ==
    \/ PumpBegin
    \/ PumpNext
    \/ ProcessSend
    \/ ProcessParse
    \/ ProcessMark

(***************************************************************************)
(* The built-in handlers for m.room.member and m.room.encryption           *)
(* (appservice.rs) on the RoomStore                                        *)
(***************************************************************************)

\* Values of event.membership_change(None).
MembershipChanges == {"None", "Joined", "Left", "Invited", "Banned", "Kicked",
                      "ProfileChanged"}

BaseTypes == {"m.room.member", "m.room.encryption"}

IdleOnEvent == [pc |-> "idle", type |-> "-", change |-> "-", room |-> "-",
                state_key |-> "-", result |-> "none"]

InitBase == on_event = IdleOnEvent

\* A match that also adds the user of an invitation.
membership_call_with_invites(change) ==
    CASE change \in {"Joined", "Invited"} -> "add"
      [] change = "Left" -> "remove"
      [] OTHER -> "none"

\* The match of on_stripped_room_member: the RoomStore call of a membership change.
membership_call(change) ==
    CASE change = "Joined" -> "add"
      [] change = "Left" -> "remove"
      [] OTHER -> "none"

\* The RoomStore call the handler of the event in hand makes.
BaseCall ==
    IF on_event.type = "m.room.encryption" THEN "upgrade"
    ELSE membership_call(on_event.change)

\* The handler registered for the event's type is invoked with the event and its
\* context; the history of the RoomStore starts anew.
BaseDeliver ==
    /\ on_event.pc \in {"idle", "done"}
    /\ calls = EmptyBag
    /\ \/ \E change \in MembershipChanges, r \in RoomIds, u \in UserIds :
             on_event' = [IdleOnEvent EXCEPT !.pc = "handling", !.type = "m.room.member",
                                             !.change = change, !.room = r,
                                             !.state_key = u]
       \/ \E r \in RoomIds :
             on_event' = [IdleOnEvent EXCEPT !.pc = "handling",
                                             !.type = "m.room.encryption", !.room = r]
    /\ ev' = NoEvent
    /\ UNCHANGED <<txnVars, devVars, userVars, exceptBase, rooms, calls>>

\* MembershipChange::Joined => room_store().add_room_member(&context.room_id,
\* event.state_key)
OnJoined ==
    /\ on_event.pc = "handling"
    /\ ev = NoEvent
    /\ BaseCall = "add"
    /\ AddRoomMember
    /\ ev'.room = on_event.room
    /\ ev'.user = on_event.state_key

\* MembershipChange::Left => room_store().remove_room_member(&context.room_id,
\* &event.state_key)
OnLeft ==
    /\ on_event.pc = "handling"
    /\ ev = NoEvent
    /\ BaseCall = "remove"
    /\ RemoveRoomMember
    /\ ev'.room = on_event.room
    /\ ev'.user = on_event.state_key

\* on_room_encryption: room_store().upgrade_room_encryption(&context.room_id)
OnRoomEncryption ==
    /\ on_event.pc = "handling"
    /\ ev = NoEvent
    /\ BaseCall = "upgrade"
    /\ UpgradeRead
    /\ ev'.room = on_event.room

\* The handler returns: the `?` of its RoomStore call, or Ok(()) when it made none.
BaseReturns ==
    /\ on_event.pc = "handling"
    /\ IF BaseCall = "none"
       THEN on_event' = [on_event EXCEPT !.pc = "done", !.result = "Ok"]
       ELSE /\ ev # NoEvent
            /\ ev.ret # "pending"
            /\ on_event' = [on_event EXCEPT !.pc = "done", !.result = ev.ret]
    /\ UNCHANGED <<txnVars, devVars, roomVars, userVars, exceptBase>>

NextBase ==
    \/ BaseDeliver
    \/ OnJoined
    \/ OnLeft
    \/ OnRoomEncryption
    \/ UpgradeWrite
    \/ UpdateTrackedUsers
    \/ BaseReturns

(***************************************************************************)
(* The locks of RoomStore, RoomInfo, UserStore and UserInner               *)
(***************************************************************************)

\* The cache operations as the lock steps they make, in program order. The locks are
\* tokio RwLocks: RoomStore.rooms, RoomInfo.joined_members of a cached room,
\* UserStore.users and UserInner.device of an appservice user. A tokio RwLock serves
\* its callers in their order of arrival: a read waits behind an earlier write that
\* is still waiting. A request to the homeserver made under a guard takes no lock
\* and is no step here.
Callers == 1..NumCallers

Locks == {"rooms", "joined_members", "users", "device"}

Read(l) == <<"acquire", l, "read">>
Write(l) == <<"acquire", l, "write">>
Drop(l) == <<"drop", l>>

\* A guard that is a temporary of one statement: RoomInfo::contains, joined_members,
\* add_member, remove_member, UserStore::get and keys, User::get_device.
Briefly(acquire) == <<acquire, Drop(acquire[2])>>

\* RoomStore::get
get_steps == Briefly(Read("rooms"))

\* User::get_device and User::create_device
get_device_steps == Briefly(Read("device"))
create_device_steps == Briefly(Write("device"))

\* What get_encrypted_members finds of the cached room for its user.
Findings == {"unencrypted", "encrypted", "member"}

\* RoomStore::get_encrypted_members: the rooms guard lives through the loop.
get_encrypted_members_steps(finding) ==
    <<Read("rooms")>>
    \o (IF finding = "unencrypted" THEN <<>> ELSE Briefly(Read("joined_members")))
    \o (IF finding = "member" THEN Briefly(Read("joined_members")) ELSE <<>>)
    \o <<Drop("rooms")>>

\* Room::get_appservice_users: joined_members, keys, and a get per common user.
get_appservice_users_steps(has_user) ==
    Briefly(Read("joined_members")) \o Briefly(Read("users"))
    \o (IF has_user THEN Briefly(Read("users")) ELSE <<>>)

\* RoomStore::update_tracked_users, with User::update_tracked_users for the user found.
\* The room it is called for is encrypted, and the user it finds was a member of it
\* a moment ago: get_encrypted_members then finds the room encrypted, with the user
\* in it or no more.
TrackedFindings == {"encrypted", "member"}

update_tracked_users_steps(has_user, finding) ==
    get_appservice_users_steps(has_user)
    \o (IF has_user THEN get_encrypted_members_steps(finding) \o get_device_steps ELSE <<>>)

\* What a RoomStore call finds under the room id: no entry, or an entry of a kind.
EntryKinds == {"None", "Unencrypted", "Encrypted"}

\* RoomStore::upgrade_room_encryption
upgrade_room_encryption_steps(entry, has_user, finding) ==
    <<Read("rooms")>>
    \o (IF entry = "Unencrypted" THEN Briefly(Read("joined_members")) ELSE <<>>)
    \o <<Drop("rooms")>>
    \o (IF entry = "Unencrypted"
        THEN Briefly(Write("rooms")) \o update_tracked_users_steps(has_user, finding)
        ELSE <<>>)

\* RoomStore::populate_known_rooms
populate_known_rooms_steps == Briefly(Write("rooms"))

\* An add_room_member whose rooms guard lives to the end of the function.
add_room_member_guard_kept(entry, fetched_encrypted, has_user, finding) ==
    <<Write("rooms")>>
    \o (IF entry = "None" THEN <<>> ELSE Briefly(Write("joined_members")))
    \o (IF entry = "Encrypted" \/ (entry = "None" /\ fetched_encrypted)
        THEN update_tracked_users_steps(has_user, finding)
        ELSE <<>>)
    \o <<Drop("rooms")>>

\* RoomStore::add_room_member: the rooms guard ends with the block that binds
\* `room`, before is_encrypted and update_tracked_users.
add_room_member_steps(entry, fetched_encrypted, has_user, finding) ==
    <<Write("rooms")>>
    \o (IF entry = "None" THEN <<>> ELSE Briefly(Write("joined_members")))
    \o <<Drop("rooms")>>
    \o (IF entry = "Encrypted" \/ (entry = "None" /\ fetched_encrypted)
        THEN update_tracked_users_steps(has_user, finding)
        ELSE <<>>)

\* RoomStore::remove_room_member
remove_room_member_steps(entry, has_user, finding) ==
    <<Write("rooms")>>
    \o (IF entry = "None" THEN <<>> ELSE Briefly(Write("joined_members")))
    \o <<Drop("rooms")>>
    \o (IF entry = "Encrypted" THEN update_tracked_users_steps(has_user, finding) ELSE <<>>)

Operations ==
    {get_steps, get_device_steps, create_device_steps, populate_known_rooms_steps}
    \cup {get_encrypted_members_steps(f) : f \in Findings}
    \cup {get_appservice_users_steps(h) : h \in BOOLEAN}
    \cup {update_tracked_users_steps(h, f) : h \in BOOLEAN, f \in TrackedFindings}
    \cup {upgrade_room_encryption_steps(e, h, f) : e \in EntryKinds, h \in BOOLEAN, f \in TrackedFindings}
    \cup {add_room_member_steps(e, x, h, f) :
              e \in EntryKinds, x \in BOOLEAN, h \in BOOLEAN, f \in TrackedFindings}
    \cup {remove_room_member_steps(e, h, f) : e \in EntryKinds, h \in BOOLEAN, f \in TrackedFindings}

\* A caller is left with the steps its operation has still to make; none: it is
\* in no operation.
IdleCaller == [steps |-> <<>>, waits |-> FALSE]

InitLocks ==
    /\ guards = [l \in Locks |-> {}]
    /\ waiters = [l \in Locks |-> <<>>]
    /\ caller = [p \in Callers |-> IdleCaller]

LocksFrame == UNCHANGED <<txnVars, devVars, roomVars, userVars, exceptLocks>>

\* The step caller p is at.
At(p) == Head(caller[p].steps)

\* A task calls one of the operations.
LockBegin(p) ==
    /\ caller[p].steps = <<>>
    /\ \E steps \in Operations : caller' = [caller EXCEPT ![p].steps = steps]
    /\ UNCHANGED <<guards, waiters>>
    /\ LocksFrame

\* Whether the lock can give a guard of the mode next to the guards alive.
Grantable(l, mode) ==
    IF mode = "write" THEN guards[l] = {}
    ELSE \A g \in guards[l] : g[2] = "read"

\* read().await or write().await finds the lock available and nobody waiting: the
\* guard is given at once.
LockAcquire(p) ==
    /\ caller[p].steps # <<>> /\ ~caller[p].waits
    /\ At(p)[1] = "acquire"
    /\ waiters[At(p)[2]] = <<>> /\ Grantable(At(p)[2], At(p)[3])
    /\ guards' = [guards EXCEPT ![At(p)[2]] = @ \cup {<<p, At(p)[3]>>}]
    /\ caller' = [caller EXCEPT ![p].steps = Tail(@)]
    /\ UNCHANGED waiters
    /\ LocksFrame

\* Otherwise the caller joins the lock's queue.
LockRequest(p) ==
    /\ caller[p].steps # <<>> /\ ~caller[p].waits
    /\ At(p)[1] = "acquire"
    /\ ~(waiters[At(p)[2]] = <<>> /\ Grantable(At(p)[2], At(p)[3]))
    /\ waiters' = [waiters EXCEPT ![At(p)[2]] = Append(@, <<p, At(p)[3]>>)]
    /\ caller' = [caller EXCEPT ![p].waits = TRUE]
    /\ UNCHANGED guards
    /\ LocksFrame

\* The first caller of the queue gets its guard.
LockGrant(p) ==
    /\ caller[p].waits
    /\ LET l == At(p)[2] IN
       /\ Head(waiters[l])[1] = p
       /\ Grantable(l, At(p)[3])
       /\ waiters' = [waiters EXCEPT ![l] = Tail(@)]
       /\ guards' = [guards EXCEPT ![l] = @ \cup {<<p, At(p)[3]>>}]
    /\ caller' = [caller EXCEPT ![p].waits = FALSE, ![p].steps = Tail(@)]
    /\ LocksFrame

\* A guard goes out of scope; with the last one the operation returns.
LockDrop(p) ==
    /\ caller[p].steps # <<>>
    /\ At(p)[1] = "drop"
    /\ guards' = [guards EXCEPT ![At(p)[2]] = {g \in @ : g[1] # p}]
    /\ caller' = [caller EXCEPT ![p].steps = Tail(@)]
    /\ UNCHANGED waiters
    /\ LocksFrame

NextLocks ==
    \E p \in Callers :
        \/ LockBegin(p)
        \/ LockAcquire(p)
        \/ LockRequest(p)
        \/ LockGrant(p)
        \/ LockDrop(p)

Init == InitTxn /\ InitDev /\ InitRoom /\ InitUser /\ InitFetch /\ InitTrack
        /\ InitDispatch /\ InitPump /\ InitExtract /\ InitEncrypt
        /\ InitDecrypt /\ InitShutdown /\ InitRequests /\ InitBase
        /\ InitLocks

SpecTxn == Init /\ [][NextTxn]_vars

SpecDev == Init /\ [][NextDev]_vars

SpecRoom == Init /\ [][NextRoom]_vars

SpecQueue == Init /\ [][NextQueue]_vars

SpecUser == Init /\ [][NextUser]_vars

SpecFetch == Init /\ [][NextFetch]_vars

SpecTrack == Init /\ [][NextTrack]_vars

SpecDispatch == Init /\ [][NextDispatch]_vars

SpecPump == Init /\ [][NextPump]_vars

SpecExtract == Init /\ [][NextExtract]_vars

SpecEncrypt == Init /\ [][NextEncrypt]_vars

SpecDecrypt == Init /\ [][NextDecrypt]_vars

SpecShutdown == Init /\ [][NextShutdown]_vars

SpecSupervise == Init /\ [][NextSupervise]_vars

SpecRequests == Init /\ [][NextRequests]_vars

SpecBase == Init /\ [][NextBase]_vars

SpecFeed == Init /\ [][NextFeed]_vars

SpecLocks == Init /\ [][NextLocks]_vars

\* The runtime schedules every spawned loop task and time passes.
\* The producer's sends and the steps of a running loop are taken when they can be;
\* nothing obliges anyone to call run on the device.
FairSpecQueue ==
    /\ SpecQueue
    /\ WF_vars(SendSyncChangesBurst)
    /\ WF_vars(RunStoreToken(1) \/ RunTakeReceiver(1))
    /\ WF_vars(LoopStep(1))
    /\ \A k \in Intervals : WF_vars(Elapse(k))

FairSpecDev ==
    /\ SpecDev
    /\ \A p \in Runners : WF_vars(LoopStep(p))
    /\ \A k \in Intervals : WF_vars(Elapse(k))

(***************************************************************************)
(* Properties of the transaction intake                                    *)
(***************************************************************************)

\* The requests that PUT /transactions/t with a valid token and were answered.
Answered(t) ==
    {r \in Reqs : req[r].pc = "done" /\ req[r].route = "transactions" /\ req[r].txn = t}

\* C1: for every txn id the closure is started at most once, all answered requests
\* with that id carry the same (status, body), which is the value of the id's cell,
\* and an id with an answered request had its closure run (exactly once).
C1_ExactlyOncePerTxnId ==
    \A t \in TxnIds :
        /\ closure_runs[t] <= 1
        /\ \A r1, r2 \in Answered(t) : req[r1].resp = req[r2].resp
        /\ \A r \in Answered(t) :
              /\ closure_runs[t] = 1
              /\ transaction_log[t] = SetCellTo(req[r].resp)

\* Two requests with one txn id were answered after the id's closure ran.
C1_Witness ==
    \E t \in TxnIds : \E r1, r2 \in Answered(t) : r1 # r2 /\ closure_runs[t] = 1

\* Whether the header carries the hs_token as a Bearer credential.
HasValidToken(h) == Len(h) = 2 /\ h[1] = "bearer" /\ h[2] = hs_token

\* C9: every answered request without a valid hs_token got 401 with the canonical
\* errcode body and never entered a route handler or lock_while.
C9_AuthGate ==
    \A r \in Reqs :
        (req[r].pc = "done" /\ ~HasValidToken(req[r].header)) =>
            /\ req[r].resp = create_error_response(UNAUTHORIZED)
            /\ req[r].txn = 0

\* C10: once handle_event failed in the closure of txn id t, the closure returns the
\* canonical 500, the cell of t never holds anything else and every answered request
\* with id t got that 500 (none got 200).
C10_DispatchErrorIs500 ==
    \A t \in dispatch_failed :
        /\ transaction_log[t].state = "set" =>
              transaction_log[t].value = create_error_response(INTERNAL_SERVER_ERROR)
        /\ \A r \in Reqs :
              req[r].txn = t =>
                  /\ req[r].pc = "return" =>
                        req[r].ret = create_error_response(INTERNAL_SERVER_ERROR)
                  /\ req[r].pc = "done" =>
                        /\ req[r].resp = create_error_response(INTERNAL_SERVER_ERROR)
                        /\ req[r].resp.status # OK

\* A failed dispatch whose 500 was given to the request that ran the closure and to
\* another request with the same id.
C10_Witness ==
    \E t \in dispatch_failed : \E r1, r2 \in Answered(t) : r1 # r2

\* C14: every answered request whose status is not 200 got that status with the
\* canonical errcode body of the status.
C14_ErrorShape ==
    \A r \in Reqs :
        (req[r].pc = "done" /\ req[r].resp.status # OK) =>
            req[r].resp = create_error_response(req[r].resp.status)

C2_SingleSyncLoop ==
    [][ /\ Cardinality({p \in Runners : run'[p].pc = "loop"}) <= 1
        /\ \A p \in Runners :
              /\ (run[p].pc = "take" /\ run'[p].pc # "take") =>
                    IF Loops = {}
                    THEN run'[p].pc = "loop"
                    ELSE run'[p] = [pc |-> "idle", result |-> "MultipleSync"]
              /\ (run'[p].result = "Ok" /\ run[p].result # "Ok") => run[p].pc = "loop"
      ]_vars

\* One call runs the loop and another one was rejected with MultipleSync.
C2_Witness ==
    \E p, q \in Runners : run[p].pc = "loop" /\ run[q].result = "MultipleSync"

\* C3: whenever stop() is called while a sync loop is active, that loop eventually
\* ends and returns the consumer.
C3_StopEndsLoop == stop_pending ~> ~stop_pending

\* No run call is between storing its token and take_receiver, and no loop whose
\* token is cancelled has still to exit.
Settled ==
    /\ \A p \in Runners : run[p].pc # "take"
    /\ Loops \cap cancelled = {}

\* C4, on the settled states only: the token slot is Some exactly when a sync loop
\* is running.
C4_TokenIffLoopRunning == Settled => ((token # 0) <=> (Loops # {}))

\* The batches send_sync_changes accepted, in the order of their acceptance.
Accepted == [i \in 1..sent |-> i]

\* C11: the batches passed to Encryption::sync followed by the batches in the queue
\* are the accepted batches in the order of their acceptance: none is skipped,
\* duplicated or reordered.
C11_SyncInEnqueueOrder == synced \o queue = Accepted

\* Two batches were passed to sync.
C11_Witness == Len(synced) >= 2

\* Whether batch i is in the sequence q.
Holds(q, i) == \E j \in 1..Len(q) : q[j] = i

\* C12: the queue never holds more than 50 batches; while it holds 50,
\* send_sync_changes accepts no batch; and every accepted batch is in the queue or
\* was passed to sync.
C12_QueueBounded ==
    [][ /\ Len(queue') <= QueueCapacity
        /\ Len(queue) = QueueCapacity => sent' = sent
        /\ \A i \in 1..sent' : Holds(queue', i) \/ Holds(synced', i)
      ]_vars

\* The queue is full again after the loop freed a slot for a waiting batch.
C12_Witness == Len(queue) = QueueCapacity /\ sent > QueueCapacity

\* C13: a loop that ends returns the consumer with the batches of the queue; while
\* no loop runs the consumer is in its slot and the queue only grows at its end; a
\* run that reaches take_receiver while no loop runs starts a loop over the same
\* queue (it does not end with MultipleSync); and a loop passes the head of the
\* queue to sync.
C13_RunResumesAfterStop ==
    [][ /\ \A p \in Runners :
              /\ (run[p].pc = "loop" /\ run'[p].pc # "loop") =>
                    (receiver' /\ queue' = queue)
              /\ (run[p].pc = "take" /\ run'[p].pc # "take" /\ Loops = {}) =>
                    (run'[p].pc = "loop" /\ queue' = queue)
        /\ Loops = {} =>
              /\ receiver
              /\ Len(queue') >= Len(queue)
              /\ SubSeq(queue', 1, Len(queue)) = queue
        /\ synced' # synced =>
              (queue # <<>> /\ synced' = Append(synced, Head(queue))
                 /\ queue' = Tail(queue))
      ]_vars

\* A loop ended with batches in the queue, and a loop started by a later run has
\* passed them to sync.
C13_Witness ==
    /\ Loops # {}
    /\ parked # <<>>
    /\ \A j \in 1..Len(parked) : Holds(synced, parked[j])

(***************************************************************************)
(* Properties of the RoomStore                                             *)
(***************************************************************************)

\* C5: a room that is tagged Encrypted is tagged Encrypted after every step of
\* add_room_member, remove_room_member, populate_known_rooms and
\* upgrade_room_encryption, and an upgrade_room_encryption called on a room that is
\* tagged Encrypted returns Ok at once and leaves the room map as it is.
C5_EncryptedTagMonotone ==
    [][ \A r \in RoomIds :
          is_encrypted(rooms, r) =>
              /\ is_encrypted(rooms', r)
              /\ (ev'.op = "upgrade" /\ ev'.phase = "call" /\ ev'.room = r) =>
                    (rooms' = rooms /\ calls' = calls /\ ev'.ret = "Ok")
      ]_vars

\* upgrade_room_encryption was called on a room that is tagged Encrypted and holds
\* a member.
C5_Witness ==
    /\ ev.op = "upgrade" /\ ev.phase = "call" /\ ev.ret = "Ok"
    /\ is_encrypted(rooms, ev.room)
    /\ rooms[ev.room].members # {}

\* The member-set part of C6, for a step of add_room_member(r, u) or
\* remove_room_member(r, u) described by the event e: after a remove u is not a
\* joined member of r; an add of a user who is a member leaves the map as it is; a
\* remove of a user who is no member, or on a room without entry, leaves the map as
\* it is.
MemberSetAlgebra(e) ==
    LET r == e.room
        u == e.user
    IN  /\ (e.op = "remove" /\ e.phase = "call") => u \notin rooms'[r].members
        /\ (e.op = "add" /\ e.phase = "call"
               /\ rooms[r].cached /\ u \in rooms[r].members) => rooms' = rooms
        /\ (e.op = "remove" /\ e.phase = "call"
               /\ ~(rooms[r].cached /\ u \in rooms[r].members)) => rooms' = rooms

\* C6 as stated: the member-set algebra, and a remove_room_member of a user who is
\* no member, or on a room without entry, does not return Err, neither at once nor
\* after the recomputation of the tracked users.
C6_RemoveAbsentReturnsOk ==
    [][ /\ MemberSetAlgebra(ev')
        /\ (ev'.op = "remove" /\ ~ev'.removed) => ev'.ret # "Err"
      ]_vars

\* C6, amended: the member-set algebra, and a remove_room_member of a user who is no
\* member, or on a room without entry, returns Ok at once unless the room is tagged
\* Encrypted; on an Encrypted room it goes on to recompute the tracked users and
\* returns what the recomputation returns.
C6_MemberSetAlgebra ==
    [][ /\ MemberSetAlgebra(ev')
        /\ (ev'.op = "remove" /\ ev'.phase = "call" /\ ~ev'.removed) =>
              ev'.ret = (IF is_encrypted(rooms, ev'.room) THEN "pending" ELSE "Ok")
      ]_vars

\* A remove_room_member of a user who was no member of an Encrypted room returned
\* the recomputation's Err.
C6_Witness ==
    /\ ev.op = "remove" /\ ev.phase = "return" /\ ~ev.removed /\ ev.ret = "Err"
    /\ is_encrypted(rooms, ev.room)

\* C7, for the calls that return without a recomputation: when
\* add_room_member(r, u) returns Ok from its map block, on a cached room or on one
\* it created from the homeserver's answers, u is a joined member of r.
C7_AddOkImpliesMember ==
    (ev.op = "add" /\ ev.phase = "call" /\ ev.ret = "Ok") =>
        ev.user \in rooms[ev.room].members

\* C8: for every user u, get_encrypted_members(u) is u together with the joined
\* members of exactly the cached rooms that are tagged Encrypted and contain u.
C8_EncryptedMembers ==
    \A u \in UserIds :
        get_encrypted_members(u) =
            {u} \cup UNION {rooms[r].members :
                               r \in {x \in RoomIds : /\ is_encrypted(rooms, x)
                                                      /\ u \in rooms[x].members}}

\* A user shares an Encrypted room with nobody and an Unencrypted room with another
\* user, who is left out of the result.
C8_Witness ==
    \E u, v \in UserIds : \E r1, r2 \in RoomIds :
        /\ u # v
        /\ is_encrypted(rooms, r1) /\ rooms[r1].members = {u}
        /\ rooms[r2].cached /\ ~is_encrypted(rooms, r2) /\ rooms[r2].members = {u, v}
        /\ get_encrypted_members(u) = {u}

\* C16: the insert of upgrade_room_encryption keeps the member set the room has at
\* that moment, so that every add_room_member and remove_room_member that
\* completed before it is reflected in the Encrypted entry.
C16_UpgradeKeepsMembers ==
    [][ (ev'.op = "upgrade" /\ ev'.phase = "write") =>
            rooms'[ev'.room].members = rooms[ev'.room].members
      ]_vars


(***************************************************************************)
(* Properties of ensure_device and the devices it creates                   *)
(***************************************************************************)

\* C17: a batch built from the entry (u, d) of device_one_time_keys_count is sent
\* to a device whose id is d and which belongs to user u.
C17_BatchToNamedDevice ==
    \A k \in Ensures : \A j \in 1..Len(devices[k].inbox) :
        devices[k].inbox[j] = <<devices[k].owner, devices[k].id>>

\* C18: whenever ensure_device creates a device, also for a user who exists and
\* has no device, the sync loop of the device has been spawned.
C18_CreatedDeviceHasLoop ==
    \A k \in Ensures : devices[k].live => devices[k].spawned

\* C19: for a user and a device id there is at most one device, hence one open
\* crypto store and one running loop, also when ensure_device calls are concurrent.
C19_OneDevicePerId ==
    \A u \in Mxids, d \in DeviceIds :
        Cardinality({k \in Ensures : /\ devices[k].live
                                     /\ devices[k].owner = u
                                     /\ devices[k].id = d}) <= 1

\* C20: no operation of another task on a device's crypto adapter is in progress
\* while the device's loop task is inside one.
C20_OneCryptoOpAtATime ==
    \A k \in Ensures : ~(crypto[k].loop # "idle" /\ crypto[k].others > 0)


(***************************************************************************)
(* Properties of room creation under the lock of the room map              *)
(***************************************************************************)

\* C21: while a call holds the lock of the room map, none of its homeserver
\* requests is in flight.
C21_NoLockAcrossHttp ==
    \A t \in Fetchers :
        rooms_lock = t => ~(fetch[t].encryption = "sent" \/ fetch[t].joined = {"sent"})

\* C27: when the encryption-state query of a room creation is answered with an error
\* status other than not-found, or fails in transport, the creating call returns an
\* error and inserts no entry.
C27_FailedQueryCreatesNothing ==
    \A t \in Fetchers :
        (fetch[t].pc \in {"unlocked", "done"}
            /\ fetch[t].encryption \in {"500", "transport"}) =>
        (~fetch[t].inserted /\ fetch[t].result \in {"none", "Err"}
            /\ (fetch[t].pc = "done" => fetch[t].result = "Err"))


(***************************************************************************)
(* Properties of the tracked-user recomputation                            *)
(***************************************************************************)

\* C22: when add_room_member, remove_room_member or upgrade_room_encryption returns
\* Ok after its recomputation, every appservice user with a device that the change
\* affected (joined to the room before or after it) had update_tracked_users called
\* on its device, with get_encrypted_members of the user.
C22_AffectedUsersRecomputed ==
    [][ \A t \in Trackers :
          (track[t].pc = "visit" /\ track[t].todo = {} /\ track'[t].pc = "idle") =>
          \A u \in track[t].owned : \E call \in track[t].updates : call[1] = u ]_vars


(***************************************************************************)
(* Properties of the event dispatch                                        *)
(***************************************************************************)

\* C23: the dispatch of an event whose type, room and sender can be read invokes the
\* handlers registered under the event's type, each once, in registration order, one
\* at a time, and no other handler; whatever the outcomes of the handlers (failed
\* deserialization, error of the callback), all of them are invoked and the
\* dispatch returns Ok.
C23_HandlersInOrder ==
    /\ Cardinality(dispatch.running) <= 1
    /\ dispatch.running # {} => Len(dispatch.outcomes) = Len(dispatch.invoked) - 1
    /\ dispatch.invoked = SubSeq(dispatch.handlers, 1, Len(dispatch.invoked))
    /\ \A i \in 1..Len(dispatch.invoked) :
          \E j \in 1..Len(event_handlers[dispatch.type]) :
              event_handlers[dispatch.type][j] = dispatch.invoked[i]
    /\ (dispatch.pc = "done" /\ dispatch.malformed = "none") =>
          /\ dispatch.result = "Ok"
          /\ dispatch.invoked = dispatch.handlers
          /\ Len(dispatch.outcomes) = Len(dispatch.handlers)

\* A dispatch to two handlers has returned Ok although the first handler failed.
C23_Witness ==
    /\ dispatch.pc = "done"
    /\ dispatch.result = "Ok"
    /\ Len(dispatch.handlers) >= 2
    /\ dispatch.outcomes[1] # "ok"


(***************************************************************************)
(* Properties of the loop's iterations                                     *)
(***************************************************************************)

\* C24: a loop ends only when its token is cancelled, and an iteration (a batch
\* synced, the outgoing-request pump, the presence update), also one that logs an
\* error, leaves the loop running with its receiver.
C24_LoopEndsOnlyOnCancel ==
    [][ /\ \A p \in Runners :
              (run[p].pc = "loop" /\ run'[p].pc # "loop") => p \in cancelled
        /\ last' # last => (run' = run /\ receiver' = receiver /\ token' = token) ]_vars

\* The loop has synced a batch without error after an earlier iteration logged an
\* error, and is running.
C24_Witness ==
    /\ erred
    /\ last.branch = "sync"
    /\ ~last.err
    /\ run[1].pc = "loop"

\* C25: when a pump run over a list of outgoing requests has completed, every request
\* of the list has been marked as sent or the pump returned an error, which the loop
\* logs.
C25_PumpMarksOrLogs ==
    last.branch = "pump" =>
        \/ \A i \in 1..Len(last.list) : last.list[i] \in last.marked
        \/ last.err

\* A pump run over two requests marked the first as sent and failed on the second.
C25_Witness ==
    /\ last.branch = "pump"
    /\ Len(last.list) >= 2
    /\ last.marked = {last.list[1]}
    /\ last.err


(***************************************************************************)
(* Properties of extract_sync_tasks                                        *)
(***************************************************************************)

\* The positions of the to-device events addressed to user u and device d.
Addressed(u, d) ==
    {i \in 1..Len(extract.transaction.to_device) :
        /\ extract.transaction.to_device[i].to_user_id = u
        /\ extract.transaction.to_device[i].to_device_id = d}

C28_EncryptsOnlyAfterKeyShared ==
    (\E i \in 1..Len(encrypt.made) : encrypt.made[i] = "encrypt_room_event")
        => encrypt.unmarked = 0

\* The parts of the claim about the two early errors and the order of the steps:
\* no crypto or network call for an uncached or unencrypted room, and
\* encrypt_room_event only after get_missing_sessions and share_room_key.
EncryptOrder ==
    /\ encrypt.result \in {"RoomNotFound", "RoomNotEncrypted"} => encrypt.made = <<>>
    /\ encrypt.room_kind = "None" /\ encrypt.pc = "done" => encrypt.result = "RoomNotFound"
    /\ encrypt.room_kind = "Unencrypted" /\ encrypt.pc = "done"
          => encrypt.result = "RoomNotEncrypted"
    /\ \A i \in 1..Len(encrypt.made) :
          encrypt.made[i] = "encrypt_room_event" =>
             /\ i = Len(encrypt.made)
             /\ \E j, k \in 1..(i - 1) :
                   /\ j < k
                   /\ encrypt.made[j] = "get_missing_sessions"
                   /\ encrypt.made[k] = "share_room_key"


(***************************************************************************)
(* Properties of on_encrypted_message                                      *)
(***************************************************************************)

\* C29: for an uncached room the handler returns RoomNotFound and tries nothing;
\* otherwise it tries only devices of appservice users joined to the room, each at
\* most once; it dispatches at most once, on the first decryption that succeeds,
\* and then returns without trying another device; it returns DecryptEvent only
\* when every such device was tried and none decrypted, with nothing dispatched.
C29_FirstDecryptionDispatchesOnce ==
    LET call == on_encrypted
        n == Len(call.tried) IN
    /\ (call.pc = "done" /\ ~call.cached) =>
          (call.result = "RoomNotFound" /\ n = 0 /\ call.dispatched = 0)
    /\ call.result = "RoomNotFound" => ~call.cached
    /\ \A i \in 1..n : call.tried[i] \in call.with_device
    /\ \A i, j \in 1..n : i # j => call.tried[i] # call.tried[j]
    /\ call.dispatched \in {0, 1}
    /\ call.dispatched = 1 =>
          /\ call.pc = "done"
          /\ call.result \in DispatchResults
          /\ call.tried[n] \in call.can_decrypt
          /\ \A i \in 1..(n - 1) : call.tried[i] \notin call.can_decrypt
    /\ call.result \in DispatchResults => call.dispatched = 1
    /\ call.result = "DecryptEvent" =>
          /\ call.dispatched = 0
          /\ {call.tried[i] : i \in 1..n} = call.with_device
          /\ call.can_decrypt = {}
    /\ (call.pc = "done" /\ call.cached /\ call.can_decrypt # {}) => call.dispatched = 1

\* Two users have a device that can decrypt; the first one tried decrypted, the
\* event was dispatched once and the other device was not tried.
C29_Witness ==
    /\ on_encrypted.pc = "done"
    /\ Cardinality(on_encrypted.can_decrypt) = 2
    /\ Len(on_encrypted.tried) = 1
    /\ on_encrypted.dispatched = 1
    /\ on_encrypted.todo # {}


(***************************************************************************)
(* Properties of ApplicationService::run                                   *)
(***************************************************************************)

\* C30: once ApplicationService::run has returned no device loop runs any more:
\* the bot's loop has ended, and no loop spawned for a puppet takes another batch
\* from its channel.
C30_NoLoopOutlivesRun ==
    [][ root.pc = "returned" =>
           /\ BotRunner \notin Loops
           /\ \A k \in Ensures : ~(crypto[k].loop = "idle" /\ crypto'[k].loop = "sync") ]_vars


(***************************************************************************)
(* Properties of the supervisor                                            *)
(***************************************************************************)

\* The calls of the supervisor so far, without their outcomes.
MadeCalls == [i \in 1..Len(inner.made) |-> inner.made[i][1]]

\* The bot device's run was entered.
BotRunEntered == run[BotRunner] # [pc |-> "idle", result |-> "none"]

C32_SelectIsOrdered ==
    [][ \A p \in Loops :
           /\ p \in cancelled =>
                 /\ synced' = synced
                 /\ due' # due => (due \subseteq due' \/ run'[p].pc = "idle")
           /\ run'[p].pc = "idle" =>
                 /\ p \in cancelled
                 /\ receiver'
                 /\ queue' = queue
                 /\ synced' = synced
           /\ ("sleep" \in due /\ "sleep" \notin due' /\ run' = run) => queue = <<>>
           /\ ("presence" \in due /\ "presence" \notin due' /\ run' = run) =>
                 (queue = <<>> /\ "sleep" \notin due) ]_vars

\* A cancelled loop has ended while a batch was pending; the batch is still queued
\* and the consumer is back in its slot.
C32_Witness ==
    /\ Loops = {}
    /\ parked # <<>>
    /\ queue = parked
    /\ receiver
    /\ synced = <<>>
    /\ \E p \in Runners : run[p].result = "Ok"


(***************************************************************************)
(* Properties of the pump, request by request                              *)
(***************************************************************************)

\* C34: when a pump run has returned, every request of its list has been sent to
\* the homeserver, whatever happened to the requests before it.
C34_FailureSparesTheRest ==
    pumping.pc = "done" /\ pumping.list # <<>> =>
        Len(pumping.answers) = Len(pumping.list)

\* C35: a request is marked as sent only when the homeserver answered it with a
\* 2xx status.
C35_MarkedOnly2xx ==
    \A r \in pumping.marked : pumping.answers[r].status = 200


(***************************************************************************)
(* Properties of the built-in handlers                                     *)
(***************************************************************************)

C36_SyncedBeforeDispatch ==
    [][ \A k \in Ensures :
           (crypto[k].others = 0 /\ crypto'[k].others = 1) =>
              (devices[k].inbox = <<>> /\ crypto[k].loop = "idle") ]_vars


(***************************************************************************)
(* Properties of the to-device events of a transaction                     *)
(***************************************************************************)

\* The batches that hold the to-device event at position i.
BatchesWith(i) ==
    {n \in 1..Len(pushed) :
        \E j \in 1..Len(pushed[n].to_device_events) : pushed[n].to_device_events[j] = i}

\* C37: when the extraction has returned Ok, every to-device event of the
\* transaction that carries a user id and a device id is in exactly one pushed
\* batch, with or without a one-time-key count entry for the pair.
C37_EveryAddressedEventPushed ==
    (extract.pc = "done" /\ extract.result = "Ok") =>
        \A i \in 1..Len(extract.transaction.to_device) :
            (/\ extract.transaction.to_device[i].to_user_id \in Mxids
             /\ extract.transaction.to_device[i].to_device_id \in DeviceIds)
                => Cardinality(BatchesWith(i)) = 1


(***************************************************************************)
(* Properties of the producer of batches                                   *)
(***************************************************************************)

\* C38: a transaction processor with MaxSends batches for one device gets all of
\* them into the device's channel in the end, so that it can answer.
C38_PushesComplete == <>(sent = MaxSends)


(***************************************************************************)
(* Properties of a failed transaction                                      *)
(***************************************************************************)

Failed(t) ==
    /\ transaction_log[t].state = "set"
    /\ transaction_log[t].value.status = INTERNAL_SERVER_ERROR

CanStep(p) ==
    /\ caller[p].steps # <<>>
    /\ caller[p].waits =>
          /\ Head(waiters[At(p)[2]])[1] = p
          /\ Grantable(At(p)[2], At(p)[3])

\* C40: the cache operations never deadlock: whenever callers are inside
\* operations, one of them can take its next step.
C40_NoDeadlock ==
    (\E p \in Callers : caller[p].steps # <<>>) => \E p \in Callers : CanStep(p)

\* A caller holds the write guards of the room map and of a member set while
\* another caller waits for the room map.
C40_Witness ==
    \E p, q \in Callers :
        /\ p # q
        /\ <<p, "write">> \in guards["rooms"]
        /\ <<p, "write">> \in guards["joined_members"]
        /\ caller[q].waits /\ At(q)[2] = "rooms"

============================================================================
